---------------------------- MODULE Spec2Model ----------------------------
(***************************************************************************)
(* Model of the VTOL VR map export (scripts/vtol_export_map_algorithm.py)  *)
(* and of the map area it reads (scripts/vtol_create_area_algorithm.py).   *)
(*                                                                         *)
(* Spec          the export run, processAlgorithm: map-area parsing, the   *)
(*               twelve raster stages of _create_height, the city burn,    *)
(*               the five height images and the manifest                   *)
(* SpecClassify  steps 2 and 4 of _create_height on one pixel              *)
(* SpecBlend     step 10 of _create_height on one pixel                    *)
(* SpecEncode    _write_height_x and _write_height on one pixel            *)
(* SpecCities    the ordering and burning of _burn_cities                  *)
(* SpecShore     step 10 of _create_height on two pixels across the shore   *)
(* SpecFalloff   the falloff-distance bathymetry on one water pixel         *)
(* SpecGen       _generate_cities of "Create city zones" under cancellation*)
(* SpecTopo      the OpenTopography import (vtol_import_opentopo_algorithm)*)
(* SpecResample  two export runs side by side, step by step                *)
(* SpecReclass   the building-height classification of _generate_cities    *)
(* SpecZone      the UTM zone selection of UtmMapAreaCalculator.fromExtent *)
(*                                                                         *)
(* Lengths are fixed-point integers in units of 1/255 m, in which the      *)
(* height step 1520/255 m (5.9607843137 m) and the pixel size 153.6 m are  *)
(* both whole numbers.                                                     *)
(***************************************************************************)
EXTENDS Integers, Sequences, FiniteSets, TLC

VARIABLES
    \* ---- the export run (processAlgorithm)
    pc,            \* the step processAlgorithm executes next
    area_layer,    \* PARAMETER_CLIPPING_LAYER: "missing", "empty" or "feature"
    area_fields,   \* the fields the map-area feature has
    biome_index,   \* PARAMETER_MAP_BIOME
    edge_index,    \* PARAMETER_MAP_EDGE
    coast_index,   \* PARAMETER_MAP_COAST
    cities_param,  \* PARAMETER_CITIES: "none", "no_city_level" or "cities"
    debug,         \* PARAMETER_INCLUDE_COMPOSITION_FILES
    map_area,      \* the MapAreaInfo _parse_area returned, or NoArea
    ran,           \* the processing.run operations started so far, in order
    files,         \* the files written into the output folder
    error,         \* the exception that ended the run, or NoError
    area_feature,  \* the first feature of the map-area layer, with the layer's extent
    cancel_at,     \* the step at which feedback.cancel() was called, or "none"
    vtm,           \* the manifest _write_vtm wrote, or NoVtm
    grid,          \* the size in pixels of the rasters made on the target grid
    \* ---- land/water classification of one high-resolution pixel
    cl_pc,         \* "source", "terrain" (after step 2) or "mask" (after step 4)
    cl_elevation,  \* hires_source at the pixel
    cl_sea_level,  \* PARAMETER_SOURCE_SEA_LEVEL
    cl_terrain,    \* hires_terrain at the pixel
    cl_mask,       \* hires_mask at the pixel
    \* ---- blend of one low-resolution pixel (step 10 of _create_height)
    bl_pc,         \* "inputs" or "blended"
    bl_A,          \* lores_terrain
    bl_B,          \* lores_mask_weight, as a count of MaskDen-ths
    bl_C,          \* lores_bathy_gradient (distance to the nearest land pixel)
    bl_D,          \* lores_bathy_slope, in percent
    bl_bias,       \* water_retention_index
    bl_out,        \* the blended height map (raw steps)
    bl_depth,      \* the synthetic depth (bathy_formula) that went into the blend
    \* ---- encoding of one pixel into the five height images
    en_pc,         \* the image written next: 0..3 (height{i}.png), 4 (height.png), 5 (done)
    en_height,     \* the blended height map at the pixel (raw steps)
    en_has_cities, \* whether a city layer is supplied (burned_cities is not None)
    en_city,       \* the city raster at the pixel
    en_image,      \* the bands <<R, G, B, A>> written so far, by image number
    \* ---- _burn_cities
    ci_pc,         \* "input", "sorted" or "burned"
    ci_layer,      \* the features of the city layer, in input order
    ci_sorted,     \* the features of sorted_cities, in id order
    ci_raster,     \* the city raster, by pixel
    \* ---- the blend of two neighbouring pixels across a straight shoreline
    sh_pc,         \* "inputs" or "blended"
    sh_plateau,    \* lores_terrain on the land side (the height of the plateau)
    sh_slope,      \* lores_bathy_slope on the water side, in percent
    sh_bias,       \* water_retention_index
    sh_land,       \* the blended height map at the land pixel (raw steps)
    sh_water,      \* the blended height map at the water pixel (raw steps)
    \* ---- the falloff-distance bathymetry of one water pixel
    fo_pc,         \* "inputs" or "encoded"
    fo_distance,   \* the distance to the shore, in pixels
    fo_max,        \* maxDistance, the cap of the distance, in pixels
    fo_depth,      \* the encoded depth (raw steps)
    \* ---- _generate_cities of "Create city zones"
    gc_pc,         \* the step _generate_cities executes next
    gc_cancel_at,  \* the step at which feedback.cancel() was called, or "none"
    gc_vector,     \* the features of feature_layer (the output of r.to.vect)
    gc_index,      \* how many of them the loop has taken
    gc_city_features, \* city_features
    gc_layer,      \* the features of the output city layer
    gc_error,      \* the exception that ended the run, or NoError
    \* ---- "Import OpenTopography Data": processAlgorithm
    ot_pc,         \* the step processAlgorithm executes next
    ot_canceled,   \* feedback.isCanceled()
    ot_area_layer, \* PARAMETER_MAP_AREA: "missing", "empty" or "feature"
    ot_http,       \* the answer of the server: "ok" or "error"
    ot_warp,       \* whether gdal:warpreproject can do its work: "ok" or "fails"
    ot_chunks,     \* the number of chunks of the response
    ot_downloaded, \* the number of chunks written to the temporary file
    ot_dem_data,   \* what _download_dem returned: "none", "{}" or "temp_tif"
    ot_ran,        \* the processing.run operations started so far
    ot_target,     \* whether the target output file has been written
    ot_loaded,     \* whether the output layer is registered for loading
    ot_result,     \* what processAlgorithm returned: "none", "{}" or "OUTPUT"
    ot_error,      \* the exception that ended the run, or NoError
    \* ---- two export runs over the same inputs (steps of _create_height)
    rs_step,       \* the number of steps of _create_height both runs have made
    rs_source,     \* the source DEM of each run
    rs_index,      \* PARAMETER_RESAMPLING of each run
    rs_raster,     \* the rasters each run has made, by step
    \* ---- classification of one pixel of building heights (_generate_cities)
    rc_pc,         \* "levels", "table" (reclass_table built) or "classified"
    rc_levels,     \* PARAMETER_CITY_LEVELS: the cutoff and the heights of levels 1..5
    rc_height,     \* the building height at the pixel
    rc_table,      \* reclass_table, as rows <<min, max, value>>
    rc_level,      \* the classified raster at the pixel, 0 for no data
    \* ---- UTM zone selection (UtmMapAreaCalculator.fromExtent, steps 1 and 2)
    zn_pc,         \* "center" (center_wgs84 known) or "selected" (utm_crs chosen)
    zn_lon,        \* center_wgs84.x(), in 1/LonDen degrees
    zn_lat,        \* center_wgs84.y(), in degrees
    zn_zone,       \* zone
    zn_epsg        \* the EPSG id of utm_crs

runVars == <<pc, area_layer, area_fields, biome_index, edge_index, coast_index,
             cities_param, debug, map_area, ran, files, error,
             area_feature, cancel_at, vtm, grid>>

classifyVars == <<cl_pc, cl_elevation, cl_sea_level, cl_terrain, cl_mask>>

blendVars == <<bl_pc, bl_A, bl_B, bl_C, bl_D, bl_bias, bl_out, bl_depth>>

encodeVars == <<en_pc, en_height, en_has_cities, en_city, en_image>>

citiesVars == <<ci_pc, ci_layer, ci_sorted, ci_raster>>

shoreVars == <<sh_pc, sh_plateau, sh_slope, sh_bias, sh_land, sh_water>>

falloffVars == <<fo_pc, fo_distance, fo_max, fo_depth>>

genVars == <<gc_pc, gc_cancel_at, gc_vector, gc_index, gc_city_features, gc_layer,
             gc_error>>

topoVars == <<ot_pc, ot_canceled, ot_area_layer, ot_http, ot_warp, ot_chunks,
              ot_downloaded, ot_dem_data, ot_ran, ot_target, ot_loaded, ot_result,
              ot_error>>

resampleVars == <<rs_step, rs_source, rs_index, rs_raster>>

reclassVars == <<rc_pc, rc_levels, rc_height, rc_table, rc_level>>

zoneVars == <<zn_pc, zn_lon, zn_lat, zn_zone, zn_epsg>>

vars == <<runVars, classifyVars, blendVars, encodeVars, citiesVars, shoreVars,
          falloffVars, genVars, topoVars,
      resampleVars,
      reclassVars,
      zoneVars>>

\* what each part of the model leaves alone
notRun ==
    <<classifyVars, blendVars, encodeVars, citiesVars, shoreVars, falloffVars, genVars,
      topoVars,
      resampleVars,
      reclassVars,
      zoneVars>>

notClassify ==
    <<runVars, blendVars, encodeVars, citiesVars, shoreVars, falloffVars, genVars,
      topoVars,
      resampleVars,
      reclassVars,
      zoneVars>>

notBlend ==
    <<runVars, classifyVars, encodeVars, citiesVars, shoreVars, falloffVars, genVars,
      topoVars,
      resampleVars,
      reclassVars,
      zoneVars>>

notEncode ==
    <<runVars, classifyVars, blendVars, citiesVars, shoreVars, falloffVars, genVars,
      topoVars,
      resampleVars,
      reclassVars,
      zoneVars>>

notCities ==
    <<runVars, classifyVars, blendVars, encodeVars, shoreVars, falloffVars, genVars,
      topoVars,
      resampleVars,
      reclassVars,
      zoneVars>>

notShore ==
    <<runVars, classifyVars, blendVars, encodeVars, citiesVars, falloffVars, genVars,
      topoVars,
      resampleVars,
      reclassVars,
      zoneVars>>

notFalloff ==
    <<runVars, classifyVars, blendVars, encodeVars, citiesVars, shoreVars, genVars,
      topoVars,
      resampleVars,
      reclassVars,
      zoneVars>>

notGen ==
    <<runVars, classifyVars, blendVars, encodeVars, citiesVars, shoreVars, falloffVars,
      topoVars,
      resampleVars,
      reclassVars,
      zoneVars>>

notTopo ==
    <<runVars, classifyVars, blendVars, encodeVars, citiesVars, shoreVars, falloffVars,
      genVars,
      resampleVars,
      reclassVars,
      zoneVars>>

notResample ==
    <<runVars,
      classifyVars,
      blendVars,
      encodeVars,
      citiesVars,
      shoreVars,
      falloffVars,
      genVars,
      topoVars,
      reclassVars,
      zoneVars>>

notReclass ==
    <<runVars,
      classifyVars,
      blendVars,
      encodeVars,
      citiesVars,
      shoreVars,
      falloffVars,
      genVars,
      topoVars,
      resampleVars,
      zoneVars>>

notZone ==
    <<runVars,
      classifyVars,
      blendVars,
      encodeVars,
      citiesVars,
      shoreVars,
      falloffVars,
      genVars,
      topoVars,
      resampleVars,
      reclassVars>>

----------------------------------------------------------------------------
(* Bounds of the model *)

\* how many of the required fields the map-area feature may lack
MaxMissingFields == 1

\* elevations within MaxElevDelta units of the sea level are all enumerated
MaxElevDelta == 12

\* sea levels of -MaxSeaLevel .. MaxSeaLevel metres
MaxSeaLevel == 1

\* the mask weight is a multiple of 1/MaskDen
MaskDen == 4

\* terrain heights of 0 .. MaxTerrainIdx quarter steps are all enumerated
MaxTerrainIdx == 8

\* shore slopes of 0 .. MaxSlope percent are all enumerated
MaxSlope == 5

\* city raster values of 0 .. MaxCityValue
MaxCityValue == 7

\* the number of pixels of the city raster
NPixels == 2

\* the number of features of the city layer
MaxFeatures == 2

\* caps of the falloff distance of 2 .. MaxFalloffDistance pixels
MaxFalloffDistance == 13

\* distances of up to FalloffBeyond pixels beyond the cap
FalloffBeyond == 2

\* the number of features r.to.vect may yield
MaxVectorFeatures == 2

\* city levels of 1 .. MaxVectorLevel on the vectorized features
MaxVectorLevel == 2

\* responses of 0 .. MaxDownloadChunks chunks
MaxDownloadChunks == 3

\* the heights of the city-level table are 0 .. MaxLevelHeight
MaxLevelHeight == 3

\* longitudes are multiples of 1/LonDen degree
LonDen == 2

\* latitudes of -MaxLatitude .. MaxLatitude degrees
MaxLatitude == 2

----------------------------------------------------------------------------
(* Fixed-point arithmetic *)

\* lengths are counted in units of 1/UnitsPerMetre m
UnitsPerMetre == 255

\* a comparison used as a number, as the raster calculator does
Bool01(b) == IF b THEN 1 ELSE 0

Max2(a, b) == IF a >= b THEN a ELSE b

Min2(a, b) == IF a <= b THEN a ELSE b

\* floor(a * b / c) for a >= 0 and c > 0, without the product a * b
MulDiv(a, b, c) == (a \div c) * b + ((a % c) * b) \div c

\* numpy's round(n / d) for d > 0: to the nearest integer, halves to the even one
RoundHalfEven(n, d) ==
    LET q == n \div d
        r == n % d
    IN IF 2 * r < d THEN q
       ELSE IF 2 * r > d THEN q + 1
       ELSE IF q % 2 = 0 THEN q ELSE q + 1

RECURSIVE IntPow(_, _)
IntPow(b, e) == IF e = 0 THEN 1 ELSE b * IntPow(b, e - 1)

----------------------------------------------------------------------------
(* The export run *)

MAP_BIOME_OPTIONS == <<"(From Map Area)", "Boreal", "Desert", "Arctic">>
MAP_EDGE_OPTIONS == <<"(From Map Area)", "Water", "Hills", "Coast">>
MAP_COAST_OPTIONS == <<"(From Map Area)", "North", "South", "East", "West">>

\* the feature fields _parse_area reads
RequiredFields == {"biome", "edge", "coast", "chunks", "latitude", "longitude", "size"}

\* QgsRectangle, in metres of the UTM zone
Rect(xMinimum, yMinimum, xMaximum, yMaximum) ==
    [xMinimum |-> xMinimum, yMinimum |-> yMinimum,
     xMaximum |-> xMaximum, yMaximum |-> yMaximum]

RectWidth(r) == r.xMaximum - r.xMinimum

RectHeight(r) == r.yMaximum - r.yMinimum

RectCenter(r) == <<(r.xMinimum + r.xMaximum) \div 2, (r.yMinimum + r.yMaximum) \div 2>>

\* UtmMapAreaCalculator.fromExtent, step 3, on the user's extent and its centre as
\* to_utm transformed them
FromExtent(extent_utm, center_utm) ==
    LET user_size == Min2(RectWidth(extent_utm), RectHeight(extent_utm))
        chunks == Max2(8, Min2(64, user_size \div 3072))
        map_size == chunks * 3072
        half_size == map_size \div 2
    IN [utm_extent |-> Rect(center_utm[1] - half_size, center_utm[2] - half_size,
                            center_utm[1] + half_size, center_utm[2] + half_size),
        chunks |-> chunks,
        map_size |-> map_size]

\* the extents the user draws in "Create map area"
UserExtents ==
    {Rect(487000, 5187000, 517000, 5213000), Rect(200000, 6000000, 450000, 6300000)}

\* the feature "Create map area" writes for a user extent, with the extent of its
\* layer. latitude and longitude are the layer's expression fields, the south-west
\* corner in EPSG:4326, here at 111320 m to the degree
CreatedArea(extent_utm) ==
    LET area == FromExtent(extent_utm, RectCenter(extent_utm))
    IN [biome |-> "Boreal", edge |-> "Coast", coast |-> "North",
        chunks |-> area.chunks,
        latitude |-> area.utm_extent.yMinimum \div 111320,
        longitude |-> area.utm_extent.xMinimum \div 111320,
        size |-> area.map_size,
        extent |-> area.utm_extent]

\* a created layer after the user edited it: the chunks attribute overwritten, or
\* the geometry reshaped (or a second feature added), which changes the layer's extent
EditedArea(extent_utm) ==
    LET area == CreatedArea(extent_utm)
    IN {[area EXCEPT !.chunks = 100],
        [area EXCEPT !.extent = Rect(area.extent.xMinimum, area.extent.yMinimum,
                                     area.extent.xMaximum + 3072, area.extent.yMaximum)]}

\* the map-area layers of the model
AreaFeatures ==
    {CreatedArea(e) : e \in UserExtents}
      \cup EditedArea(Rect(487000, 5187000, 517000, 5213000))

\* the map-area feature of the run (the values of the fields it has)
AreaFeature == area_feature

NoExtent == Rect(0, 0, 0, 0)

NoArea == [biome |-> "", edge |-> "", coast |-> "", chunks |-> 0,
           latitude |-> 0, longitude |-> 0, size |-> 0, extent |-> NoExtent]

NoError == [type |-> "none", message |-> ""]

OutputFolderName == "mymap"

\* area[name] of a QgsFeature: the value, or KeyError when the field is missing
HasField(name) == name \in area_fields

\* the steps of _create_height: <<operation, debug file>>, in execution order
CreateHeightStages ==
    << <<"warpreproject", "01_hires_source.tif">>,
       <<"rastercalculator", "02_hires_terrain.tif">>,
       <<"slope", "03_hires_slope.tif">>,
       <<"rastercalculator", "04_hires_mask.tif">>,
       <<"proximity", "05_hires_shore.tif">>,
       <<"rastercalculator", "06_hires_shore.tif">>,
       <<"warpreproject", "07_lores_terrain.tif">>,
       <<"warpreproject", "08_lores_mask_weight.tif">>,
       <<"warpreproject", "9_lores_shore.tif">>,
       <<"fillnodata", "11_lores_bathy_slope.tif">>,
       <<"proximity", "10_lores_bathy_gradient.tif">>,
       <<"rastercalculator", "12_lores_blend.tif">> >>

HeightPng == <<"height0.png", "height1.png", "height2.png", "height3.png">>
HeightMerged == <<"13_height0_merged.tif", "13_height1_merged.tif",
                  "13_height2_merged.tif", "13_height3_merged.tif">>

FinalFiles == {HeightPng[i] : i \in 1..4} \cup {"height.png", OutputFolderName \o ".vtm"}

\* path(name) that always lies in the output folder
DebugFileAlways(name) == {name}

\* path(name): the output folder when debug files are requested, else temporary
DebugFile(name) == IF debug THEN {name} ELSE {}

\* CHUNK2PX = 20
CHUNK2PX == 20

\* _create_height: target_width = (map_area["chunks"] * self.CHUNK2PX) + 1
TargetWidth(area) == (area.chunks * CHUNK2PX) + 1

\* _burn_cities with the width of a whole number of chunks
BurnWidthNoOverlap(area) == area.chunks * CHUNK2PX

\* _burn_cities: target_width = (map_area["chunks"] * self.CHUNK2PX) + 1
BurnWidth(area) == (area.chunks * CHUNK2PX) + 1

\* the steps of _create_height whose output each step reads, by position in
\* CreateHeightStages
StageInputs ==
    <<{}, {1}, {1}, {2}, {4}, {5, 3}, {2}, {4}, {6}, {9}, {8}, {7, 8, 11, 10}>>

\* the steps of _create_height that warp a raster to the target size ("-ts")
ResizingStages == {7, 8, 9}

NoGrid == [raster |-> "", width |-> 0, height |-> 0]

\* the size of the raster a step of _create_height wrote
GridOf(k) ==
    IF \E g \in grid : g.raster = CreateHeightStages[k][2]
      THEN CHOOSE g \in grid : g.raster = CreateHeightStages[k][2]
      ELSE NoGrid

NoVtm == [name |-> "", mapID |-> "", edgeMode |-> "", longitude |-> 0, latitude |-> 0,
          coastSide |-> "", biome |-> "", seed |-> "", mapSize |-> 0]

\* _write_vtm with each coordinate under its own name
VtmUnswapped(folder, area) ==
    [name |-> folder \o ".vtm",
     mapID |-> folder,
     edgeMode |-> area.edge,
     longitude |-> area.longitude,
     latitude |-> area.latitude,
     coastSide |-> IF area.edge = "Coast" THEN area.coast ELSE "",
     biome |-> area.biome,
     seed |-> "seed",
     mapSize |-> area.chunks]

\* _write_vtm: the file name and the fields written ("Game has lat and lon
\* switched"); coastSide is written only for the edge mode Coast
VtmOf(folder, area) ==
    [name |-> folder \o ".vtm",
     mapID |-> folder,
     edgeMode |-> area.edge,
     longitude |-> area.latitude,
     latitude |-> area.longitude,
     coastSide |-> IF area.edge = "Coast" THEN area.coast ELSE "",
     biome |-> area.biome,
     seed |-> "seed",
     mapSize |-> area.chunks]

\* the exception processing.run raises when the algorithm it ran did not succeed
ChildFailed == [type |-> "QgsProcessingException",
                message |-> "There were errors executing the algorithm."]

Raise(type, message) ==
    /\ pc' = "failed"
    /\ error' = [type |-> type, message |-> message]

RunInit ==
    /\ pc = "mkdir"
    /\ area_layer \in {"missing", "empty", "feature"}
    /\ area_fields \in {f \in SUBSET RequiredFields :
                          Cardinality(RequiredFields \ f) <= MaxMissingFields}
    /\ area_layer # "feature" => area_fields = RequiredFields
    /\ biome_index \in 0..(Len(MAP_BIOME_OPTIONS) - 1)
    /\ edge_index \in 0..(Len(MAP_EDGE_OPTIONS) - 1)
    /\ coast_index \in 0..(Len(MAP_COAST_OPTIONS) - 1)
    /\ cities_param \in {"none", "no_city_level", "cities"}
    /\ debug \in BOOLEAN
    /\ map_area = NoArea
    /\ ran = <<>>
    /\ files = {}
    /\ error = NoError
    /\ area_feature \in AreaFeatures
    /\ cancel_at = "none"
    /\ vtm = NoVtm
    /\ grid = {}

RunIdle ==
    /\ pc = "idle"
    /\ area_layer = "missing"
    /\ area_fields = {}
    /\ biome_index = 0
    /\ edge_index = 0
    /\ coast_index = 0
    /\ cities_param = "none"
    /\ debug = FALSE
    /\ map_area = NoArea
    /\ ran = <<>>
    /\ files = {}
    /\ error = NoError
    /\ area_feature = NoArea
    /\ cancel_at = "none"
    /\ vtm = NoVtm
    /\ grid = {}

\* processAlgorithm: output_folder_path.mkdir(parents=True, exist_ok=True)
Mkdir ==
    /\ pc = "mkdir"
    /\ pc' = "parse_area"
    /\ UNCHANGED <<area_layer, area_fields, biome_index, edge_index, coast_index,
                   cities_param, debug, map_area, ran, files, error,
                   area_feature, cancel_at, vtm, grid>>
    /\ UNCHANGED notRun

\* _parse_area: the biome, edge and coast lookups stand before the try block,
\* the other four inside it
ParseArea ==
    /\ pc = "parse_area"
    /\ IF area_layer = "missing"
         THEN Raise("QgsProcessingException", "Provided map area layer not found!")
              /\ UNCHANGED map_area
       ELSE IF area_layer = "empty"
         THEN Raise("QgsProcessingException",
                    "No feature found in provided map area layer!")
              /\ UNCHANGED map_area
       ELSE IF \/ (biome_index = 0 /\ ~HasField("biome"))
               \/ (edge_index = 0 /\ ~HasField("edge"))
               \/ (coast_index = 0 /\ ~HasField("coast"))
         THEN Raise("KeyError",
                    IF biome_index = 0 /\ ~HasField("biome") THEN "biome"
                    ELSE IF edge_index = 0 /\ ~HasField("edge") THEN "edge"
                    ELSE "coast")
              /\ UNCHANGED map_area
       ELSE IF \E f \in {"chunks", "latitude", "longitude", "size"} : ~HasField(f)
         THEN Raise("QgsProcessingException",
                    "Required feature fields not found. Map area layer is invalid.")
              /\ UNCHANGED map_area
       ELSE /\ map_area' =
                 [biome |-> IF biome_index = 0 THEN AreaFeature.biome
                            ELSE MAP_BIOME_OPTIONS[biome_index + 1],
                  edge |-> IF edge_index = 0 THEN AreaFeature.edge
                           ELSE MAP_EDGE_OPTIONS[edge_index + 1],
                  coast |-> IF coast_index = 0 THEN AreaFeature.coast
                            ELSE MAP_COAST_OPTIONS[coast_index + 1],
                  chunks |-> AreaFeature.chunks,
                  latitude |-> AreaFeature.latitude,
                  longitude |-> AreaFeature.longitude,
                  size |-> AreaFeature.size,
                  extent |-> AreaFeature.extent]
            /\ pc' = "create_height"
            /\ UNCHANGED error
    /\ UNCHANGED <<area_layer, area_fields, biome_index, edge_index, coast_index,
                   cities_param, debug, ran, files,
                   area_feature, cancel_at, vtm, grid>>
    /\ UNCHANGED notRun

\* the number of _create_height steps already started
HeightStagesRun == Cardinality({i \in 1..Len(ran) : ran[i][1] = "create_height"})

\* _create_height: the next of its twelve processing.run calls. A warp with "-ts"
\* makes a raster of the target size; every other step makes one of the size of
\* its input
CreateHeightStage ==
    /\ pc = "create_height"
    /\ LET k == HeightStagesRun + 1
       IN /\ ran' = Append(ran, <<"create_height", k, CreateHeightStages[k][1]>>)
          /\ files' = files \cup DebugFile(CreateHeightStages[k][2])
          /\ grid' = IF k \in ResizingStages
                       THEN grid \cup {[raster |-> CreateHeightStages[k][2],
                                        width |-> TargetWidth(map_area),
                                        height |-> TargetWidth(map_area)]}
                     ELSE IF \E i \in StageInputs[k] : GridOf(i) # NoGrid
                       THEN grid \cup {[GridOf(CHOOSE i \in StageInputs[k] : GridOf(i) # NoGrid)
                                          EXCEPT !.raster = CreateHeightStages[k][2]]}
                     ELSE grid
          /\ pc' = IF k = Len(CreateHeightStages) THEN "burn_cities" ELSE pc
    /\ UNCHANGED <<area_layer, area_fields, biome_index, edge_index, coast_index,
                   cities_param, debug, map_area, error,
                   area_feature, cancel_at, vtm>>
    /\ UNCHANGED notRun

\* processAlgorithm, lines 807-815, and _burn_cities
BurnCities ==
    /\ pc = "burn_cities"
    /\ IF cities_param = "none"
         THEN /\ pc' = "write_height_x"
              /\ UNCHANGED <<ran, error, grid>>
       ELSE IF cities_param = "no_city_level"
         THEN /\ Raise("QgsProcessingException", "Selected city layer is not a city layer.")
              /\ UNCHANGED <<ran, grid>>
       ELSE /\ ran' = Append(ran, <<"burn_cities", 1, "rasterize">>)
            /\ grid' = grid \cup {[raster |-> "burned_cities",
                                   width |-> BurnWidth(map_area),
                                   height |-> BurnWidth(map_area)]}
            /\ pc' = "write_height_x"
            /\ UNCHANGED error
    /\ UNCHANGED <<area_layer, area_fields, biome_index, edge_index, coast_index,
                   cities_param, debug, map_area, files,
                   area_feature, cancel_at, vtm>>
    /\ UNCHANGED notRun

\* the images counted from the last one down
HeightXWrittenDescending ==
    3 - (Cardinality({i \in 1..Len(ran) : ran[i][1] = "write_height_x"}) \div 2)

\* the number of height{index}.png images already written
HeightXWritten == Cardinality({i \in 1..Len(ran) : ran[i][1] = "write_height_x"}) \div 2

\* _write_height_x(index): the merge calculation, then the translation to PNG
WriteHeightX ==
    /\ pc = "write_height_x"
    /\ LET index == HeightXWritten
       IN /\ ran' = ran \o << <<"write_height_x", index, "rastercalculator">>,
                              <<"write_height_x", index, "translate">> >>
          /\ files' = files \cup DebugFile(HeightMerged[index + 1])
                            \cup {HeightPng[index + 1]}
          /\ pc' = IF index = 3 THEN "write_height" ELSE pc
    /\ UNCHANGED <<area_layer, area_fields, biome_index, edge_index, coast_index,
                   cities_param, debug, map_area, error,
                   area_feature, cancel_at, vtm, grid>>
    /\ UNCHANGED notRun

\* _write_height
WriteHeight ==
    /\ pc = "write_height"
    /\ ran' = ran \o << <<"write_height", 0, "rastercalculator">>,
                        <<"write_height", 0, "translate">> >>
    /\ files' = files \cup DebugFile("13_height_merged.tif") \cup {"height.png"}
    /\ pc' = "write_vtm"
    /\ UNCHANGED <<area_layer, area_fields, biome_index, edge_index, coast_index,
                   cities_param, debug, map_area, error,
                   area_feature, cancel_at, vtm, grid>>
    /\ UNCHANGED notRun

\* _write_vtm
WriteVtm ==
    /\ pc = "write_vtm"
    /\ vtm' = VtmOf(OutputFolderName, map_area)
    /\ files' = files \cup {vtm'.name}
    /\ pc' = "report"
    /\ UNCHANGED <<area_layer, area_fields, biome_index, edge_index, coast_index,
                   cities_param, debug, map_area, ran, error,
                   area_feature, cancel_at, grid>>
    /\ UNCHANGED notRun

\* processAlgorithm, lines 843-895: the population report and the return
Report ==
    /\ pc = "report"
    /\ pc' = "done"
    /\ UNCHANGED <<area_layer, area_fields, biome_index, edge_index, coast_index,
                   cities_param, debug, map_area, ran, files, error,
                   area_feature, cancel_at, vtm, grid>>
    /\ UNCHANGED notRun

\* the steps of processAlgorithm that run a child algorithm with its feedback
ChildSteps == {"create_height", "burn_cities", "write_height_x", "write_height"}

\* feedback.cancel(), from the user interface, while the export runs
Cancel ==
    /\ pc \notin {"done", "failed", "idle"}
    /\ cancel_at = "none"
    /\ cancel_at' = pc
    /\ UNCHANGED <<pc, area_layer, area_fields, biome_index, edge_index, coast_index,
                   cities_param, debug, map_area, ran, files, error,
                   area_feature, vtm, grid>>
    /\ UNCHANGED notRun

\* processAlgorithm itself never reads feedback.isCanceled(); it hands the feedback
\* to every processing.run, and a child algorithm that sees the cancellation may
\* stop, on which processing.run raises. Whether it does is not decided by the
\* source: the run either goes on (the other actions) or fails here
ChildCanceled ==
    /\ cancel_at # "none"
    /\ pc \in ChildSteps
    /\ pc = "burn_cities" => cities_param = "cities"
    /\ Raise(ChildFailed.type, ChildFailed.message)
    /\ UNCHANGED <<area_layer, area_fields, biome_index, edge_index, coast_index,
                   cities_param, debug, map_area, ran, files,
                   area_feature, cancel_at, vtm, grid>>
    /\ UNCHANGED notRun

RunNext ==
    \/ Cancel
    \/ ChildCanceled
    \/ Mkdir
    \/ ParseArea
    \/ CreateHeightStage
    \/ BurnCities
    \/ WriteHeightX
    \/ WriteHeight
    \/ WriteVtm
    \/ Report

----------------------------------------------------------------------------
(* Land/water classification: steps 2 and 4 of _create_height *)

\* step 2 with the comparison made on the unshifted elevation
TerrainFormulaUnshifted(A, sea_level) == Bool01(A > 0) * (A - sea_level)

\* step 2, FORMULA "((A - sea_level) > 0) * (A - sea_level)"
TerrainFormula(A, sea_level) == Bool01((A - sea_level) > 0) * (A - sea_level)

\* step 4 with the comparison A >= 0
MaskFormulaInclusive(A) == Bool01(A >= 0)

\* step 4, FORMULA "A > 0"
MaskFormula(A) == Bool01(A > 0)

\* the elevations of the model: all those near the sea level, and some far from it
ElevationSamples(sea_level) ==
    {sea_level + d : d \in (-MaxElevDelta)..MaxElevDelta}
      \cup {sea_level + m * UnitsPerMetre : m \in {-11000, -80, -5, 5, 100, 6000, 9000}}

ClassifyIdle ==
    /\ cl_pc = "idle"
    /\ cl_elevation = 0
    /\ cl_sea_level = 0
    /\ cl_terrain = 0
    /\ cl_mask = 0

ClassifyInit ==
    /\ cl_pc = "source"
    /\ cl_sea_level \in {m * UnitsPerMetre : m \in (-MaxSeaLevel)..MaxSeaLevel}
    /\ cl_elevation \in ElevationSamples(cl_sea_level)
    /\ cl_terrain = 0
    /\ cl_mask = 0

\* step 2: extract the terrain, shifted to the user's sea level
ExtractTerrain ==
    /\ cl_pc = "source"
    /\ cl_terrain' = TerrainFormula(cl_elevation, cl_sea_level)
    /\ cl_pc' = "terrain"
    /\ UNCHANGED <<cl_elevation, cl_sea_level, cl_mask>>
    /\ UNCHANGED notClassify

\* step 4: the high-resolution land mask
DetectShoreline ==
    /\ cl_pc = "terrain"
    /\ cl_mask' = MaskFormula(cl_terrain)
    /\ cl_pc' = "mask"
    /\ UNCHANGED <<cl_elevation, cl_sea_level, cl_terrain>>
    /\ UNCHANGED notClassify

ClassifyNext ==
    \/ ExtractTerrain
    \/ DetectShoreline

----------------------------------------------------------------------------
(* The blend: step 10 of _create_height *)

\* height_step = 5.9607843137 m = 1520/255 m
height_step == 1520

\* pixel_size = 153.6 m
pixel_size == 39168

\* the offset of 80 m without its correction
ZeroOffsetUncorrected == 80 * UnitsPerMetre

\* zero_offset = 80 - 2.5098039219 m = 80 m - 640/255 m
zero_offset == 80 * UnitsPerMetre - 640

\* max_bathy_distance = pixel_size * 13
max_bathy_distance == pixel_size * 13

\* the floor of the synthetic depth, -80 m
BathyFloor == -80 * UnitsPerMetre

\* the ceiling of the blended surface, 6080 m
BlendCeiling == 6080 * UnitsPerMetre

\* the value gdal:fillnodata leaves where it finds nothing to fill from
SlopeNoData == -9999

\* SHORELINE_BIAS_VALUES = [0.2, 0.5, 1.0, 2.5, 5.0] as fractions <<p, q>>
SHORELINE_BIAS_VALUES == << <<1, 5>>, <<1, 2>>, <<1, 1>>, <<5, 2>>, <<5, 1>> >>

\* the interpolation weight is kept in WeightScale-ths
WeightScale == 16

\* pow(B, q/p), the bias inverted
InterpolationWeightInverted(b, bias) ==
    LET p == bias[2]
        q == bias[1]
    IN CHOOSE x \in 0..WeightScale :
         /\ IntPow(x, q) * IntPow(MaskDen, p) <= IntPow(b, p) * IntPow(WeightScale, q)
         /\ \A y \in (x + 1)..WeightScale :
              IntPow(y, q) * IntPow(MaskDen, p) > IntPow(b, p) * IntPow(WeightScale, q)

\* pow(B, p/q) for B = b/MaskDen in [0, 1], rounded down to WeightScale-ths:
\* the largest x with (x/WeightScale)^q <= (b/MaskDen)^p
InterpolationWeight(b, bias) ==
    LET p == bias[1]
        q == bias[2]
    IN CHOOSE x \in 0..WeightScale :
         /\ IntPow(x, q) * IntPow(MaskDen, p) <= IntPow(b, p) * IntPow(WeightScale, q)
         /\ \A y \in (x + 1)..WeightScale :
              IntPow(y, q) * IntPow(MaskDen, p) > IntPow(b, p) * IntPow(WeightScale, q)

\* the synthetic depth without its floor of -80 m
BathyFormulaNoFloor(C, D) ==
    Min2(-MulDiv(C, D, 100), -MulDiv(C, height_step, pixel_size))

\* the synthetic depth from the shore slope alone
BathyFormulaSlopeOnly(C, D) == Max2(BathyFloor, -MulDiv(C, D, 100))

\* the synthetic depth with two height steps to the pixel
BathyFormulaSteep(C, D) ==
    Max2(BathyFloor, Min2(-MulDiv(C, D, 100), -MulDiv(C, 2 * height_step, pixel_size)))

\* bathy_formula: maximum(-80, minimum(-(C * (D / 100.0)), -(C / pixel_size * height_step)))
BathyFormula(C, D) ==
    Max2(BathyFloor, Min2(-MulDiv(C, D, 100), -MulDiv(C, height_step, pixel_size)))

\* the blend without the ceiling of 6080 m
BlendFormulaNoCeiling(A, b, C, D, bias) ==
    LET w == InterpolationWeight(b, bias)
        interpolation == (A * w) + (BathyFormula(C, D) * (WeightScale - w))
    IN RoundHalfEven(Max2(0, interpolation + zero_offset * WeightScale),
                     height_step * WeightScale)

\* FORMULA: round(maximum(0, minimum(interpolation + zero_offset, 6080)) * (1 / height_step)),
\* with interpolation = (A * pow(B, bias)) + (bathy * (1 - pow(B, bias)))
BlendFormula(A, b, C, D, bias) ==
    LET w == InterpolationWeight(b, bias)
        interpolation == (A * w) + (BathyFormula(C, D) * (WeightScale - w))
    IN RoundHalfEven(Max2(0, Min2(interpolation + zero_offset * WeightScale,
                                  BlendCeiling * WeightScale)),
                     height_step * WeightScale)

\* the terrain heights of the model: quarter steps up to MaxTerrainIdx, and large ones
TerrainSamples ==
    {k * (height_step \div 4) : k \in 0..MaxTerrainIdx}
      \cup {m * UnitsPerMetre : m \in {1000, 5999, 6000, 6002, 6003, 6080, 9000, 400000}}

\* the distances gdal:proximity yields: 0 on a land pixel, else the distance to the
\* nearest one, or max_bathy_distance where none is within max_bathy_distance
DistanceSamples ==
    {0, pixel_size, 55392, 2 * pixel_size, 87583, 5 * pixel_size,
     12 * pixel_size, max_bathy_distance}

SlopeSamples == (0..MaxSlope) \cup {20, 100, 1000, SlopeNoData}

BlendIdle ==
    /\ bl_pc = "idle"
    /\ bl_A = 0
    /\ bl_B = 0
    /\ bl_C = 0
    /\ bl_D = 0
    /\ bl_bias = 0
    /\ bl_out = 0
    /\ bl_depth = 0

\* the inputs of step 10 at one pixel. The proximity raster (step 9) is computed
\* from the mask weight with the target value 1: it is 0 on a pixel of weight 1 and
\* positive on a pixel of weight 0; on a pixel of a weight in between it is what
\* gdal:proximity makes of a fractional value, which the source does not decide
BlendInit ==
    /\ bl_pc = "inputs"
    /\ bl_A \in TerrainSamples
    /\ bl_B \in 0..MaskDen
    /\ bl_C \in DistanceSamples
    /\ bl_B = MaskDen => bl_C = 0
    /\ bl_B = 0 => bl_C > 0
    /\ bl_D \in SlopeSamples
    /\ bl_bias \in 0..(Len(SHORELINE_BIAS_VALUES) - 1)
    /\ bl_out = 0
    /\ bl_depth = 0

\* step 10: blend and quantize
Blend ==
    /\ bl_pc = "inputs"
    /\ bl_out' = BlendFormula(bl_A, bl_B, bl_C, bl_D, SHORELINE_BIAS_VALUES[bl_bias + 1])
    /\ bl_depth' = BathyFormula(bl_C, bl_D)
    /\ bl_pc' = "blended"
    /\ UNCHANGED <<bl_A, bl_B, bl_C, bl_D, bl_bias>>
    /\ UNCHANGED notBlend

BlendNext == Blend

----------------------------------------------------------------------------
(* The height images: _write_height_x and _write_height *)

\* CITY_TYPE_BURNS, in the order of its keys: RURAL, SUBURB, MIDTOWN, DOWNTOWN_1,
\* DOWNTOWN_2
CITY_TYPE_BURNS ==
    << <<51, 205, 0, 0, 0>>,
       <<99, 255, 143, 0, 0>>,
       <<149, 255, 255, 87, 0>>,
       <<199, 255, 255, 255, 31>>,
       <<249, 255, 255, 255, 229>> >>

\* the raw steps of the height map: 0 .. 6080 m / height_step
MaxRawSteps == BlendCeiling \div height_step

\* a Byte output whose values wrap around modulo 256
ToByteWrapping(v) == v % 256

\* RTYPE 0, a Byte output: GDAL clamps what it writes to the range of the band
ToByte(v) == Max2(0, Min2(255, v))

\* an offset of 256 raw steps per image
OffsetOf256(index) == index * 256

\* _write_height_x: offset = index * 255
OffsetOf(index) == index * 255

\* the colour of height{index}.png taken one place too early
ColorIndexOffByOne(index) == index

\* _write_height_x: color_index = index + 1, a position in a CITY_TYPE_BURNS row
\* counted from 0
ColorIndex(index) == index + 1

\* one term of the city formula: "((B == city_index_value) * color)"
CityTermOf(B, city_index, color_index) ==
    Bool01(B = city_index + 1) * CITY_TYPE_BURNS[city_index + 1][color_index + 1]

RECURSIVE SumTerms(_, _, _)
\* " + ".join(city_terms) over the city_index values 0 .. n - 1
SumTerms(B, n, color_index) ==
    IF n = 0 THEN 0
    ELSE SumTerms(B, n - 1, color_index) + CityTermOf(B, n - 1, color_index)

\* city_term: "0" without a city layer, else the sum of the five level terms
CityTerm(has_cities, B, color_index) ==
    IF ~has_cities THEN 0 ELSE SumTerms(B, Len(CITY_TYPE_BURNS), color_index)

\* _write_height_x, FORMULA "(A >= offset) * (A - offset)"
HeightXFormula(A, index) == Bool01(A >= OffsetOf(index)) * (A - OffsetOf(index))

\* _write_height with the scaled value rounded down
HeightFormulaFloor(A) == (A * 255) \div 1020

\* _write_height, FORMULA "round(A * range)" with range = 255 / 1020
HeightFormula(A) == RoundHalfEven(A * 255, 1020)

\* the merged raster of height{index}.png with the city colour in the B band too
MergedHeightXCityInBlue(A, has_cities, B, index) ==
    << ToByte(HeightXFormula(A, index)),
       ToByte(CityTerm(has_cities, B, ColorIndex(index))),
       ToByte(CityTerm(has_cities, B, ColorIndex(index))),
       ToByte(255) >>

\* the four bands of the merged raster of height{index}.png
MergedHeightX(A, has_cities, B, index) ==
    << ToByte(HeightXFormula(A, index)),
       ToByte(CityTerm(has_cities, B, ColorIndex(index))),
       ToByte(0),
       ToByte(255) >>

\* the four bands of the merged raster of height.png
MergedHeight(A, has_cities, B) ==
    << ToByte(HeightFormula(A)),
       ToByte(CityTerm(has_cities, B, 0)),
       ToByte(0),
       ToByte(255) >>

NotWritten == <<>>

EncodeIdle ==
    /\ en_pc = -1
    /\ en_height = 0
    /\ en_has_cities = FALSE
    /\ en_city = 0
    /\ en_image = [i \in 0..4 |-> NotWritten]

\* one pixel of the blended height map and of the city raster
EncodeInit ==
    /\ en_pc = 0
    /\ en_height \in 0..MaxRawSteps
    /\ en_has_cities \in BOOLEAN
    /\ en_city \in 0..MaxCityValue
    /\ ~en_has_cities => en_city = 0
    /\ en_image = [i \in 0..4 |-> NotWritten]

\* processAlgorithm, for index in range(4): _write_height_x(index)
WriteHeightXPixel ==
    /\ en_pc \in 0..3
    /\ en_image' = [en_image EXCEPT
                      ![en_pc] = MergedHeightX(en_height, en_has_cities, en_city, en_pc)]
    /\ en_pc' = en_pc + 1
    /\ UNCHANGED <<en_height, en_has_cities, en_city>>
    /\ UNCHANGED notEncode

\* processAlgorithm: _write_height
WriteHeightPixel ==
    /\ en_pc = 4
    /\ en_image' = [en_image EXCEPT
                      ![4] = MergedHeight(en_height, en_has_cities, en_city)]
    /\ en_pc' = 5
    /\ UNCHANGED <<en_height, en_has_cities, en_city>>
    /\ UNCHANGED notEncode

EncodeNext ==
    \/ WriteHeightXPixel
    \/ WriteHeightPixel

----------------------------------------------------------------------------
(* _burn_cities *)

\* the city levels RURAL .. DOWNTOWN_2
CityLevels == 1..Len(CITY_TYPE_BURNS)

Pixels == 1..NPixels

\* a city polygon: its "City Level" and the pixels of the target grid it covers
CityFeatures == [level : CityLevels, covers : SUBSET Pixels]

RECURSIVE InsertBeforeEqual(_, _)
\* f put behind every feature of the sorted sequence whose level is below its own
InsertBeforeEqual(f, sorted) ==
    IF sorted = <<>> THEN <<f>>
    ELSE IF sorted[Len(sorted)].level < f.level THEN Append(sorted, f)
    ELSE Append(InsertBeforeEqual(f, SubSeq(sorted, 1, Len(sorted) - 1)),
                sorted[Len(sorted)])

RECURSIVE StableSortTiesReversed(_)
\* an ascending sort that turns the order of features of equal level around
StableSortTiesReversed(features) ==
    IF features = <<>> THEN <<>>
    ELSE InsertBeforeEqual(features[Len(features)],
                           StableSortTiesReversed(SubSeq(features, 1, Len(features) - 1)))

RECURSIVE InsertByLevel(_, _)
\* f put behind every feature of the sorted sequence whose level is not above its own
InsertByLevel(f, sorted) ==
    IF sorted = <<>> THEN <<f>>
    ELSE IF sorted[Len(sorted)].level <= f.level THEN Append(sorted, f)
    ELSE Append(InsertByLevel(f, SubSeq(sorted, 1, Len(sorted) - 1)),
                sorted[Len(sorted)])

RECURSIVE StableSort(_)
\* sorted(features, key=lambda f: f["City Level"]): ascending and stable
StableSort(features) ==
    IF features = <<>> THEN <<>>
    ELSE InsertByLevel(features[Len(features)],
                       StableSort(SubSeq(features, 1, Len(features) - 1)))

\* the input features, each with its position in the input layer
Numbered(layer) ==
    [i \in 1..Len(layer) |->
        [level |-> layer[i].level, covers |-> layer[i].covers, source |-> i]]

\* the features given their ids in input order, unsorted
SortedCitiesUnsorted(layer) ==
    [i \in 1..Len(layer) |->
        [fid |-> i - 1, level |-> layer[i].level, covers |-> layer[i].covers,
         source |-> i]]

\* sorted_cities: the features in ascending level order, feature number index
\* getting the id index (lines 657-667)
SortedCities(layer) ==
    LET sorted_features == StableSort(Numbered(layer))
    IN [index \in 1..Len(sorted_features) |->
          [fid |-> index - 1,
           level |-> sorted_features[index].level,
           covers |-> sorted_features[index].covers,
           source |-> sorted_features[index].source]]

RECURSIVE Rasterize(_, _)
\* gdal:rasterize with INIT 0 and FIELD "City Level": the first n features painted in
\* id order, each over what was painted before
Rasterize(sorted, n) ==
    IF n = 0 THEN [p \in Pixels |-> 0]
    ELSE LET below == Rasterize(sorted, n - 1)
         IN [p \in Pixels |-> IF p \in sorted[n].covers THEN sorted[n].level
                              ELSE below[p]]

RECURSIVE SeqsUpTo(_, _)
\* the sequences over S of length at most n
SeqsUpTo(S, n) ==
    IF n = 0 THEN {<<>>}
    ELSE LET shorter == SeqsUpTo(S, n - 1)
         IN shorter \cup {Append(q, x) : q \in {t \in shorter : Len(t) = n - 1}, x \in S}

CitiesIdle ==
    /\ ci_pc = "idle"
    /\ ci_layer = <<>>
    /\ ci_sorted = <<>>
    /\ ci_raster = [p \in Pixels |-> 0]

CitiesInit ==
    /\ ci_pc = "input"
    /\ ci_layer \in SeqsUpTo(CityFeatures, MaxFeatures)
    /\ ci_sorted = <<>>
    /\ ci_raster = [p \in Pixels |-> 0]

\* _burn_cities, step 1: the sorted copy of the layer
SortCities ==
    /\ ci_pc = "input"
    /\ ci_sorted' = SortedCities(ci_layer)
    /\ ci_pc' = "sorted"
    /\ UNCHANGED <<ci_layer, ci_raster>>
    /\ UNCHANGED notCities

\* _burn_cities, step 2: burn the cities into a raster
RasterizeCities ==
    /\ ci_pc = "sorted"
    /\ ci_raster' = Rasterize(ci_sorted, Len(ci_sorted))
    /\ ci_pc' = "burned"
    /\ UNCHANGED <<ci_layer, ci_sorted>>
    /\ UNCHANGED notCities

CitiesNext ==
    \/ SortCities
    \/ RasterizeCities

----------------------------------------------------------------------------
(* Two pixels across the shoreline: step 10 of _create_height *)

\* the heights of the plateau: above the sea, since the pixel is land
PlateauSamples == {h \in TerrainSamples : h > 0}

ShoreIdle ==
    /\ sh_pc = "idle"
    /\ sh_plateau = 0
    /\ sh_slope = 0
    /\ sh_bias = 0
    /\ sh_land = 0
    /\ sh_water = 0

\* a flat plateau next to a flat seabed, the shoreline running along the pixel
\* edges: the land pixel has the weight 1 and the distance 0, the water pixel next
\* to it the weight 0, the terrain 0 and the distance of one pixel
ShoreInit ==
    /\ sh_pc = "inputs"
    /\ sh_plateau \in PlateauSamples
    /\ sh_slope \in SlopeSamples
    /\ sh_bias \in 0..(Len(SHORELINE_BIAS_VALUES) - 1)
    /\ sh_land = 0
    /\ sh_water = 0

\* step 10 at both pixels
BlendShore ==
    /\ sh_pc = "inputs"
    /\ sh_land' = BlendFormula(sh_plateau, MaskDen, 0, sh_slope,
                              SHORELINE_BIAS_VALUES[sh_bias + 1])
    /\ sh_water' = BlendFormula(0, 0, pixel_size, sh_slope,
                               SHORELINE_BIAS_VALUES[sh_bias + 1])
    /\ sh_pc' = "blended"
    /\ UNCHANGED <<sh_plateau, sh_slope, sh_bias>>
    /\ UNCHANGED notShore

ShoreNext == BlendShore

----------------------------------------------------------------------------
(* The falloff-distance bathymetry *)

\* the depth with eleven steps between the shore and the cap
FalloffDepthElevenSteps(distance, maxDistance) ==
    RoundHalfEven((12 * (maxDistance - 1)) - ((Min2(distance, maxDistance) - 1) * 11),
                  maxDistance - 1)

\* round(12 - (distance - 1) * 12 / (maxDistance - 1)) of the distance capped at
\* maxDistance
FalloffDepth(distance, maxDistance) ==
    RoundHalfEven((12 * (maxDistance - 1)) - ((Min2(distance, maxDistance) - 1) * 12),
                  maxDistance - 1)

FalloffIdle ==
    /\ fo_pc = "idle"
    /\ fo_distance = 0
    /\ fo_max = 0
    /\ fo_depth = 0

\* a water pixel: at least one pixel away from the shore
FalloffInit ==
    /\ fo_pc = "inputs"
    /\ fo_max \in 2..MaxFalloffDistance
    /\ fo_distance \in 1..(fo_max + FalloffBeyond)
    /\ fo_depth = 0

EncodeFalloff ==
    /\ fo_pc = "inputs"
    /\ fo_depth' = FalloffDepth(fo_distance, fo_max)
    /\ fo_pc' = "encoded"
    /\ UNCHANGED <<fo_distance, fo_max>>
    /\ UNCHANGED notFalloff

FalloffNext == EncodeFalloff

----------------------------------------------------------------------------
(* "Create city zones": _generate_cities *)

\* a feature of r.to.vect: its level and whether its area exceeds 95000
VectorFeatures == [level : 1..MaxVectorLevel, large : BOOLEAN]

\* the exception _generate_cities makes of any failure of the download
DownloadFailed == [type |-> "QgsProcessingException",
                   message |-> "Error downloading city data"]

GenIdle ==
    /\ gc_pc = "idle"
    /\ gc_cancel_at = "none"
    /\ gc_vector = <<>>
    /\ gc_index = 0
    /\ gc_city_features = <<>>
    /\ gc_layer = <<>>
    /\ gc_error = NoError

\* processAlgorithm has made the empty output layer and calls _generate_cities
GenInit ==
    /\ gc_pc = "download"
    /\ gc_cancel_at = "none"
    /\ gc_vector \in SeqsUpTo(VectorFeatures, MaxVectorFeatures)
    /\ gc_index = 0
    /\ gc_city_features = <<>>
    /\ gc_layer = <<>>
    /\ gc_error = NoError

GenCanceled == gc_cancel_at # "none"

\* feedback.cancel(), from the user interface, while _generate_cities runs
GenCancel ==
    /\ gc_pc \notin {"idle", "returned", "failed"}
    /\ gc_cancel_at = "none"
    /\ gc_cancel_at' = gc_pc
    /\ UNCHANGED <<gc_pc, gc_vector, gc_index, gc_city_features, gc_layer, gc_error>>
    /\ UNCHANGED notGen

\* lines 249-298: the windowed read, whose callback returns 0 once it sees the
\* cancellation (the read fails and the failure is raised as a
\* QgsProcessingException), and the check after it
DownloadCityData ==
    /\ gc_pc = "download"
    /\ IF GenCanceled
         THEN \/ gc_pc' = "failed" /\ gc_error' = DownloadFailed
              \/ gc_pc' = "returned" /\ UNCHANGED gc_error
         ELSE gc_pc' = "reproject" /\ UNCHANGED gc_error
    /\ UNCHANGED <<gc_cancel_at, gc_vector, gc_index, gc_city_features, gc_layer>>
    /\ UNCHANGED notGen

\* lines 301-321: gdal:warpreproject, and the check after it: a child algorithm that sees
\* the cancellation may stop, on which processing.run raises
ReprojectCityData ==
    /\ gc_pc = "reproject"
    /\ IF GenCanceled
         THEN \/ gc_pc' = "failed" /\ gc_error' = ChildFailed
              \/ gc_pc' = "returned" /\ UNCHANGED gc_error
         ELSE gc_pc' = "classify" /\ UNCHANGED gc_error
    /\ UNCHANGED <<gc_cancel_at, gc_vector, gc_index, gc_city_features, gc_layer>>
    /\ UNCHANGED notGen

\* lines 323-351: native:reclassifybytable, and the check after it: a child algorithm that sees
\* the cancellation may stop, on which processing.run raises
ClassifyCityData ==
    /\ gc_pc = "classify"
    /\ IF GenCanceled
         THEN \/ gc_pc' = "failed" /\ gc_error' = ChildFailed
              \/ gc_pc' = "returned" /\ UNCHANGED gc_error
         ELSE gc_pc' = "vectorize" /\ UNCHANGED gc_error
    /\ UNCHANGED <<gc_cancel_at, gc_vector, gc_index, gc_city_features, gc_layer>>
    /\ UNCHANGED notGen

\* lines 353-380: grass7:r.to.vect, the feature count and the check before the loop
VectorizeCityData ==
    /\ gc_pc = "vectorize"
    /\ IF GenCanceled
         THEN \/ gc_pc' = "failed" /\ gc_error' = ChildFailed
              \/ gc_pc' = "returned" /\ UNCHANGED gc_error
         ELSE /\ gc_pc' = IF Len(gc_vector) = 0 THEN "returned" ELSE "features"
              /\ UNCHANGED gc_error
    /\ UNCHANGED <<gc_cancel_at, gc_vector, gc_index, gc_city_features, gc_layer>>
    /\ UNCHANGED notGen

\* lines 382-397: one pass of the loop over the features; on a cancellation it
\* breaks out of the loop
ProcessCityFeature ==
    /\ gc_pc = "features"
    /\ IF GenCanceled
         THEN /\ gc_pc' = "add_features"
              /\ UNCHANGED <<gc_index, gc_city_features>>
         ELSE LET feature == gc_vector[gc_index + 1]
              IN /\ gc_city_features' =
                      IF feature.level = 1 /\ ~feature.large
                        THEN gc_city_features
                        ELSE Append(gc_city_features, feature)
                 /\ gc_index' = gc_index + 1
                 /\ gc_pc' = IF gc_index + 1 = Len(gc_vector) THEN "add_features"
                                                                ELSE "features"
    /\ UNCHANGED <<gc_cancel_at, gc_vector, gc_layer, gc_error>>
    /\ UNCHANGED notGen

\* lines 399-402: the statements after the loop
AddCityFeatures ==
    /\ gc_pc = "add_features"
    /\ gc_layer' = gc_layer \o gc_city_features
    /\ gc_pc' = "returned"
    /\ UNCHANGED <<gc_cancel_at, gc_vector, gc_index, gc_city_features, gc_error>>
    /\ UNCHANGED notGen

GenNext ==
    \/ GenCancel
    \/ DownloadCityData
    \/ ReprojectCityData
    \/ ClassifyCityData
    \/ VectorizeCityData
    \/ ProcessCityFeature
    \/ AddCityFeatures

----------------------------------------------------------------------------
(* "Import OpenTopography Data": processAlgorithm and _download_dem *)

TopoIdle ==
    /\ ot_pc = "idle"
    /\ ot_canceled = FALSE
    /\ ot_area_layer = "missing"
    /\ ot_http = "ok"
    /\ ot_warp = "ok"
    /\ ot_chunks = 0
    /\ ot_downloaded = 0
    /\ ot_dem_data = "none"
    /\ ot_ran = <<>>
    /\ ot_target = FALSE
    /\ ot_loaded = FALSE
    /\ ot_result = "none"
    /\ ot_error = NoError

TopoInit ==
    /\ ot_pc = "validate"
    /\ ot_canceled = FALSE
    /\ ot_area_layer \in {"missing", "empty", "feature"}
    /\ ot_http \in {"ok", "error"}
    /\ ot_warp \in {"ok", "fails"}
    /\ ot_chunks \in 0..MaxDownloadChunks
    /\ ot_downloaded = 0
    /\ ot_dem_data = "none"
    /\ ot_ran = <<>>
    /\ ot_target = FALSE
    /\ ot_loaded = FALSE
    /\ ot_result = "none"
    /\ ot_error = NoError

TopoRaise(type, message) ==
    /\ ot_pc' = "failed"
    /\ ot_error' = [type |-> type, message |-> message]

\* feedback.cancel(), from the user interface, while the import runs
TopoCancel ==
    /\ ot_pc \notin {"idle", "returned", "failed"}
    /\ ~ot_canceled
    /\ ot_canceled' = TRUE
    /\ UNCHANGED <<ot_pc, ot_area_layer, ot_http, ot_warp, ot_chunks, ot_downloaded,
                   ot_dem_data, ot_ran, ot_target, ot_loaded, ot_result, ot_error>>
    /\ UNCHANGED notTopo

\* processAlgorithm, lines 154-163: the validation of the map area
TopoValidate ==
    /\ ot_pc = "validate"
    /\ IF ot_area_layer = "missing"
         THEN TopoRaise("QgsProcessingException", "Provided map area layer not found!")
       ELSE IF ot_area_layer = "empty"
         THEN TopoRaise("QgsProcessingException",
                        "No feature found in provided map area layer!")
       ELSE ot_pc' = "request" /\ UNCHANGED ot_error
    /\ UNCHANGED <<ot_canceled, ot_area_layer, ot_http, ot_warp, ot_chunks,
                   ot_downloaded, ot_dem_data, ot_ran, ot_target, ot_loaded, ot_result>>
    /\ UNCHANGED notTopo

\* _download_dem, lines 255-256 and 278-281: requests.get and raise_for_status
TopoRequest ==
    /\ ot_pc = "request"
    /\ IF ot_http = "error"
         THEN TopoRaise("QgsProcessingException", "OpenTopo Server Error")
         ELSE ot_pc' = "download" /\ UNCHANGED ot_error
    /\ UNCHANGED <<ot_canceled, ot_area_layer, ot_http, ot_warp, ot_chunks,
                   ot_downloaded, ot_dem_data, ot_ran, ot_target, ot_loaded, ot_result>>
    /\ UNCHANGED notTopo

\* _download_dem, lines 266-270: one pass of the loop over the chunks
DownloadChunk ==
    /\ ot_pc = "download"
    /\ ot_downloaded < ot_chunks
    /\ IF ot_canceled
         THEN /\ ot_dem_data' = "{}"
              /\ ot_pc' = "check_download"
              /\ UNCHANGED ot_downloaded
         ELSE /\ ot_downloaded' = ot_downloaded + 1
              /\ UNCHANGED <<ot_pc, ot_dem_data>>
    /\ UNCHANGED <<ot_canceled, ot_area_layer, ot_http, ot_warp, ot_chunks, ot_ran,
                   ot_target, ot_loaded, ot_result, ot_error>>
    /\ UNCHANGED notTopo

\* _download_dem, line 277: return temp_tif once the response is exhausted
FinishDownload ==
    /\ ot_pc = "download"
    /\ ot_downloaded = ot_chunks
    /\ ot_dem_data' = "temp_tif"
    /\ ot_pc' = "check_download"
    /\ UNCHANGED <<ot_canceled, ot_area_layer, ot_http, ot_warp, ot_chunks,
                   ot_downloaded, ot_ran, ot_target, ot_loaded, ot_result, ot_error>>
    /\ UNCHANGED notTopo

\* the step after the download without the check of the cancellation
AfterDownloadUnchecked(canceled) == "reproject"

\* processAlgorithm, lines 198-199: if feedback.isCanceled(): return {}
AfterDownload(canceled) == IF canceled THEN "returned" ELSE "reproject"

CheckDownload ==
    /\ ot_pc = "check_download"
    /\ ot_pc' = AfterDownload(ot_canceled)
    /\ ot_result' = IF ot_pc' = "returned" THEN "{}" ELSE ot_result
    /\ UNCHANGED <<ot_canceled, ot_area_layer, ot_http, ot_warp, ot_chunks,
                   ot_downloaded, ot_dem_data, ot_ran, ot_target, ot_loaded, ot_error>>
    /\ UNCHANGED notTopo

\* processAlgorithm, lines 205-224: gdal:warpreproject into the target file. When
\* it cannot do its work processing.run raises; when the run is cancelled it may
\* stop, with or without a target file, or finish
TopoReproject ==
    /\ ot_pc = "reproject"
    /\ ot_ran' = Append(ot_ran, "warpreproject")
    /\ IF ot_warp = "fails"
         THEN /\ TopoRaise(ChildFailed.type, ChildFailed.message)
              /\ UNCHANGED ot_target
       ELSE \/ /\ ot_canceled
               /\ TopoRaise(ChildFailed.type, ChildFailed.message)
               /\ ot_target' \in BOOLEAN
            \/ /\ ot_target' = TRUE
               /\ ot_pc' = "check_reproject"
               /\ UNCHANGED ot_error
    /\ UNCHANGED <<ot_canceled, ot_area_layer, ot_http, ot_warp, ot_chunks,
                   ot_downloaded, ot_dem_data, ot_loaded, ot_result>>
    /\ UNCHANGED notTopo

\* processAlgorithm, lines 226-227: if feedback.isCanceled(): return {}
CheckReproject ==
    /\ ot_pc = "check_reproject"
    /\ ot_pc' = IF ot_canceled THEN "returned" ELSE "register"
    /\ ot_result' = IF ot_canceled THEN "{}" ELSE ot_result
    /\ UNCHANGED <<ot_canceled, ot_area_layer, ot_http, ot_warp, ot_chunks,
                   ot_downloaded, ot_dem_data, ot_ran, ot_target, ot_loaded, ot_error>>
    /\ UNCHANGED notTopo

\* processAlgorithm, lines 229-236. The layer name is f"{area["name"] (opentopo)}":
\* the expression in the braces calls area["name"] with the argument opentopo, a
\* name that is bound nowhere, so building the LayerDetails raises NameError and
\* neither addLayerToLoadOnCompletion nor the return statement is reached
TopoRegister ==
    /\ ot_pc = "register"
    /\ TopoRaise("NameError", "name 'opentopo' is not defined")
    /\ UNCHANGED <<ot_canceled, ot_area_layer, ot_http, ot_warp, ot_chunks,
                   ot_downloaded, ot_dem_data, ot_ran, ot_target, ot_loaded, ot_result>>
    /\ UNCHANGED notTopo

TopoNext ==
    \/ TopoCancel
    \/ TopoValidate
    \/ TopoRequest
    \/ DownloadChunk
    \/ FinishDownload
    \/ CheckDownload
    \/ TopoReproject
    \/ CheckReproject
    \/ TopoRegister

----------------------------------------------------------------------------
(* Two export runs side by side: what each raster of _create_height is made from *)

\* OPTIONS_RESAMPLING, the keys in order
OPTIONS_RESAMPLING ==
    <<"nearest", "bilinear", "cubic", "cubicspline", "lanczos", "average", "mode",
      "maximum", "minimum", "median", "q1", "q3">>

\* list(self.OPTIONS_RESAMPLING.keys()).index(name)
ResamplingIndex(name) ==
    CHOOSE i \in 0..(Len(OPTIONS_RESAMPLING) - 1) : OPTIONS_RESAMPLING[i + 1] = name

SourceLayers == {"dem_a", "dem_b"}

\* every warp of _create_height resampling by the method the user selected
StageResamplingByUser(k, resampling_index) ==
    IF CreateHeightStages[k][1] = "warpreproject" THEN resampling_index ELSE -1

\* the "RESAMPLING" parameter of step k of _create_height, -1 where the step has none
StageResampling(k, resampling_index) ==
    IF k = 1 THEN 0
    ELSE IF k = 7 THEN resampling_index
    ELSE IF k = 8 THEN ResamplingIndex("average")
    ELSE IF k = 9 THEN ResamplingIndex("maximum")
    ELSE -1

\* the raster step k makes: the operation, its resampling method and the rasters
\* (for step 1 the source layer) it reads; the operations are deterministic
StageRaster(k, source, resampling_index, rasters) ==
    [operation |-> CreateHeightStages[k][1],
     resampling |-> StageResampling(k, resampling_index),
     source |-> IF k = 1 THEN source ELSE "",
     inputs |-> [i \in StageInputs[k] |-> rasters[i]]]

ResampleIdle ==
    /\ rs_step = 0
    /\ rs_source = <<"", "">>
    /\ rs_index = <<0, 0>>
    /\ rs_raster = << <<>>, <<>> >>

ResampleInit ==
    /\ rs_step = 0
    /\ rs_source \in SourceLayers \X SourceLayers
    /\ rs_index \in (0..(Len(OPTIONS_RESAMPLING) - 1)) \X (0..(Len(OPTIONS_RESAMPLING) - 1))
    /\ rs_raster = << <<>>, <<>> >>

\* the next step of _create_height, made by both runs
ResampleStage ==
    /\ rs_step < Len(CreateHeightStages)
    /\ rs_step' = rs_step + 1
    /\ rs_raster' = [r \in 1..2 |->
                       Append(rs_raster[r],
                              StageRaster(rs_step + 1, rs_source[r], rs_index[r],
                                          rs_raster[r]))]
    /\ UNCHANGED <<rs_source, rs_index>>
    /\ UNCHANGED notResample

ResampleNext == ResampleStage

----------------------------------------------------------------------------
(* "Create city zones": the classification of the building heights *)

\* the rows the loop over city_levels[i], i = from .. len - 1, appends to
\* reclass_table, cutoff being the upper bound of the last row appended
RECURSIVE ReclassRows(_, _, _)
ReclassRows(city_levels, from, cutoff) ==
    IF from > Len(city_levels) - 1 THEN <<>>
    ELSE LET height == city_levels[from + 1]
         IN IF height <= 0
              THEN ReclassRows(city_levels, from + 1, cutoff)
              ELSE << <<cutoff, height, from>> >>
                     \o ReclassRows(city_levels, from + 1, height)

\* _generate_cities, lines 323-330
ReclassTable(city_levels) == ReclassRows(city_levels, 1, city_levels[1])

\* native:reclassifybytable with RANGE_BOUNDARIES 0 (min < value <= max),
\* NODATA_FOR_MISSING True and NO_DATA 0: the value of the first row that holds
\* the input, no data when no row does
ReclassifyByTable(table, value) ==
    IF \E r \in 1..Len(table) : table[r][1] < value /\ value <= table[r][2]
      THEN table[CHOOSE r \in 1..Len(table) :
                   /\ table[r][1] < value /\ value <= table[r][2]
                   /\ \A q \in 1..(r - 1) : ~(table[q][1] < value /\ value <= table[q][2])][3]
      ELSE 0

\* the tables the widget can hand over: six heights, 0 for an unchecked row; with
\* nothing checked _generate_cities is not called (skip_city_generation)
CityLevelTables ==
    {t \in [1..6 -> 0..MaxLevelHeight] : \E i \in 1..6 : t[i] # 0}

ReclassIdle ==
    /\ rc_pc = "idle"
    /\ rc_levels = <<>>
    /\ rc_height = 0
    /\ rc_table = <<>>
    /\ rc_level = 0

ReclassInit ==
    /\ rc_pc = "levels"
    /\ rc_levels \in CityLevelTables
    /\ rc_height \in 0..(MaxLevelHeight + 1)
    /\ rc_table = <<>>
    /\ rc_level = 0

BuildReclassTable ==
    /\ rc_pc = "levels"
    /\ rc_table' = ReclassTable(rc_levels)
    /\ rc_pc' = "table"
    /\ UNCHANGED <<rc_levels, rc_height, rc_level>>
    /\ UNCHANGED notReclass

ClassifyBuildingHeight ==
    /\ rc_pc = "table"
    /\ rc_level' = ReclassifyByTable(rc_table, rc_height)
    /\ rc_pc' = "classified"
    /\ UNCHANGED <<rc_levels, rc_height, rc_table>>
    /\ UNCHANGED notReclass

ReclassNext ==
    \/ BuildReclassTable
    \/ ClassifyBuildingHeight

----------------------------------------------------------------------------
(* "Create map area": the UTM zone of the extent's centre *)

\* int(n / d) for d > 0: Python's int() cuts the fraction off, towards zero
IntTrunc(n, d) == IF n >= 0 THEN n \div d ELSE -((-n) \div d)

\* zone = int((center_wgs84.x() + 180) / 6) + 1
UtmZone(lon) == IntTrunc(lon + 180 * LonDen, 6 * LonDen) + 1

\* hemisphere = 32600 if center_wgs84.y() >= 0 else 32700
Hemisphere(lat) == IF lat >= 0 THEN 32600 ELSE 32700

ZoneIdle ==
    /\ zn_pc = "idle"
    /\ zn_lon = 0
    /\ zn_lat = 0
    /\ zn_zone = 0
    /\ zn_epsg = 0

\* the centre of the user's extent in EPSG:4326
ZoneInit ==
    /\ zn_pc = "center"
    /\ zn_lon \in (-180 * LonDen)..(180 * LonDen)
    /\ zn_lat \in (-MaxLatitude)..MaxLatitude
    /\ zn_zone = 0
    /\ zn_epsg = 0

\* fromExtent, step 2: utm_crs = fromEpsgId(hemisphere + zone)
SelectUtmZone ==
    /\ zn_pc = "center"
    /\ zn_zone' = UtmZone(zn_lon)
    /\ zn_epsg' = Hemisphere(zn_lat) + zn_zone'
    /\ zn_pc' = "selected"
    /\ UNCHANGED <<zn_lon, zn_lat>>
    /\ UNCHANGED notZone

ZoneNext == SelectUtmZone

----------------------------------------------------------------------------
(* Specifications *)

Init == RunInit /\ ClassifyIdle /\ BlendIdle /\ EncodeIdle /\ CitiesIdle /\ ShoreIdle /\ FalloffIdle
      /\ GenIdle
      /\ TopoIdle
      /\ ResampleIdle
      /\ ReclassIdle
      /\ ZoneIdle

Next == RunNext

Spec == Init /\ [][Next]_vars

InitClassify == ClassifyInit /\ RunIdle /\ BlendIdle /\ EncodeIdle /\ CitiesIdle /\ ShoreIdle /\ FalloffIdle
      /\ GenIdle
      /\ TopoIdle
      /\ ResampleIdle
      /\ ReclassIdle
      /\ ZoneIdle

SpecClassify == InitClassify /\ [][ClassifyNext]_vars

InitBlend == BlendInit /\ RunIdle /\ ClassifyIdle /\ EncodeIdle /\ CitiesIdle /\ ShoreIdle /\ FalloffIdle
      /\ GenIdle
      /\ TopoIdle
      /\ ResampleIdle
      /\ ReclassIdle
      /\ ZoneIdle

SpecBlend == InitBlend /\ [][BlendNext]_vars

InitEncode == EncodeInit /\ RunIdle /\ ClassifyIdle /\ BlendIdle /\ CitiesIdle /\ ShoreIdle /\ FalloffIdle
      /\ GenIdle
      /\ TopoIdle
      /\ ResampleIdle
      /\ ReclassIdle
      /\ ZoneIdle

SpecEncode == InitEncode /\ [][EncodeNext]_vars

InitCities == CitiesInit /\ RunIdle /\ ClassifyIdle /\ BlendIdle /\ EncodeIdle /\ ShoreIdle /\ FalloffIdle
      /\ GenIdle
      /\ TopoIdle
      /\ ResampleIdle
      /\ ReclassIdle
      /\ ZoneIdle

SpecCities == InitCities /\ [][CitiesNext]_vars

InitShore ==
    ShoreInit /\ RunIdle /\ ClassifyIdle /\ BlendIdle /\ EncodeIdle /\ CitiesIdle /\ FalloffIdle
      /\ GenIdle
      /\ TopoIdle
      /\ ResampleIdle
      /\ ReclassIdle
      /\ ZoneIdle

SpecShore == InitShore /\ [][ShoreNext]_vars

InitFalloff ==
    FalloffInit /\ RunIdle /\ ClassifyIdle /\ BlendIdle /\ EncodeIdle /\ CitiesIdle /\ ShoreIdle
      /\ GenIdle
      /\ TopoIdle
      /\ ResampleIdle
      /\ ReclassIdle
      /\ ZoneIdle

SpecFalloff == InitFalloff /\ [][FalloffNext]_vars

InitGen ==
    GenInit /\ RunIdle /\ ClassifyIdle /\ BlendIdle /\ EncodeIdle /\ CitiesIdle
      /\ ShoreIdle /\ FalloffIdle
      /\ TopoIdle
      /\ ResampleIdle
      /\ ReclassIdle
      /\ ZoneIdle

SpecGen == InitGen /\ [][GenNext]_vars

InitTopo ==
    TopoInit /\ RunIdle /\ ClassifyIdle /\ BlendIdle /\ EncodeIdle /\ CitiesIdle
      /\ ShoreIdle /\ FalloffIdle /\ GenIdle
      /\ ResampleIdle
      /\ ReclassIdle
      /\ ZoneIdle

SpecTopo == InitTopo /\ [][TopoNext]_vars

InitResample ==
    ResampleInit /\ RunIdle /\ ClassifyIdle /\ BlendIdle /\ EncodeIdle /\ CitiesIdle
      /\ ShoreIdle /\ FalloffIdle /\ GenIdle /\ TopoIdle
      /\ ReclassIdle
      /\ ZoneIdle

SpecResample == InitResample /\ [][ResampleNext]_vars

InitReclass ==
    ReclassInit /\ RunIdle /\ ClassifyIdle /\ BlendIdle /\ EncodeIdle /\ CitiesIdle
      /\ ShoreIdle /\ FalloffIdle /\ GenIdle /\ TopoIdle /\ ResampleIdle
      /\ ZoneIdle

SpecReclass == InitReclass /\ [][ReclassNext]_vars

InitZone ==
    ZoneInit /\ RunIdle /\ ClassifyIdle /\ BlendIdle /\ EncodeIdle /\ CitiesIdle
      /\ ShoreIdle /\ FalloffIdle /\ GenIdle /\ TopoIdle /\ ResampleIdle /\ ReclassIdle

SpecZone == InitZone /\ [][ZoneNext]_vars

----------------------------------------------------------------------------
(* Claims *)

C2_SeaLevelPixelIsLand ==
    (cl_pc = "mask" /\ cl_elevation = cl_sea_level) => cl_mask = 1

\* C2, amended: a pixel whose elevation equals the sea level is classified as water:
\* its terrain value is 0 and it is outside the land mask.
C2_SeaLevelPixelIsWater ==
    (cl_pc = "mask" /\ cl_elevation = cl_sea_level) => (cl_terrain = 0 /\ cl_mask = 0)

C2_Witness ==
    /\ cl_pc = "mask"
    /\ cl_elevation = cl_sea_level
    /\ cl_mask = 0

\* C3: the blended value is a whole number of raw steps in 0..1020 for every terrain
\* height, mask weight, shore distance, slope (the unfilled nodata value included)
\* and bias; a fully-land pixel at or above the ceiling of 6080 m is encoded as 1020.
C3_RawStepsClamped ==
    bl_pc = "blended" =>
        /\ bl_out \in 0..1020
        /\ (bl_B = MaskDen /\ bl_A + zero_offset >= BlendCeiling) => bl_out = 1020

C3_Witness ==
    /\ bl_pc = "blended"
    /\ bl_A > BlendCeiling
    /\ bl_B = MaskDen
    /\ bl_D = SlopeNoData
    /\ bl_out = 1020

\* C4: the R band of every written height{i}.png is the raw step value less 255 * i,
\* clamped to 0..255.
C4_FourChannelEncoding ==
    \A i \in 0..3 :
        en_image[i] # NotWritten =>
            en_image[i][1] = IF en_height - 255 * i < 0 THEN 0
                             ELSE IF en_height - 255 * i > 255 THEN 255
                             ELSE en_height - 255 * i

C4_Witness ==
    /\ en_height = 1020
    /\ \A i \in 0..3 : en_image[i] # NotWritten /\ en_image[i][1] = 255

\* C5: the R band of height.png is in 0..255, is a nearest whole number to a quarter
\* of the raw step value, is 0 for 0 and 255 for 1020, and is not below the value the
\* next lower raw step is given.
C5_SingleChannelEncoding ==
    en_image[4] # NotWritten =>
        LET value == en_image[4][1]
        IN /\ value \in 0..255
           /\ (4 * value - en_height) \in -2..2
           /\ en_height = 0 => value = 0
           /\ en_height = 1020 => value = 255
           /\ en_height > 0 => MergedHeight(en_height - 1, en_has_cities, en_city)[1] <= value

C5_Witness ==
    /\ en_image[4] # NotWritten
    /\ en_height = 1020
    /\ en_image[4][1] = 255

\* the raw steps decoded from the four images: the sum of their R bands
DecodedFromFour == en_image[0][1] + en_image[1][1] + en_image[2][1] + en_image[3][1]

\* the raw steps decoded from height.png: value * 1020 / 255
DecodedFromOne == en_image[4][1] * 4

\* C6, as claimed: both decodings recover the raw step value within one step.
C6_RoundTripWithinOneStep ==
    en_pc = 5 =>
        /\ (DecodedFromFour - en_height) \in -1..1
        /\ (DecodedFromOne - en_height) \in -1..1

\* C6, amended: the four-image decoding recovers the raw step value exactly, the
\* single-image decoding recovers it within two raw steps.
C6_RoundTripWithinTwoSteps ==
    en_pc = 5 =>
        /\ DecodedFromFour = en_height
        /\ (DecodedFromOne - en_height) \in -2..2

C6_Witness ==
    /\ en_pc = 5
    /\ en_height > 255
    /\ DecodedFromFour = en_height
    /\ DecodedFromOne - en_height \in {-2, 2}

\* the highest of the levels in a non-empty set of input features
IsHighestLevel(value, covering) ==
    /\ \E i \in covering : ci_layer[i].level = value
    /\ \A i \in covering : ci_layer[i].level <= value

\* C7: after the burn, every pixel covered by some polygon holds the highest level
\* among the polygons covering it, whatever their order in the input layer, and
\* every pixel covered by none holds 0.
C7_HighestLevelWins ==
    ci_pc = "burned" =>
        \A p \in Pixels :
            LET covering == {i \in 1..Len(ci_layer) : p \in ci_layer[i].covers}
            IN IF covering = {} THEN ci_raster[p] = 0
               ELSE IsHighestLevel(ci_raster[p], covering)

C7_Witness ==
    /\ ci_pc = "burned"
    /\ Len(ci_layer) = 2
    /\ ci_layer[1].level = 4
    /\ ci_layer[2].level = 2
    /\ \E p \in Pixels :
         /\ p \in ci_layer[1].covers \cap ci_layer[2].covers
         /\ ci_raster[p] = 4

\* the burn value the table gives for a city raster value in image number i
\* (0..3: height{i}.png, 4: height.png)
TableBurn(i) ==
    IF en_has_cities /\ en_city \in 1..5
      THEN CITY_TYPE_BURNS[en_city][IF i = 4 THEN 1 ELSE i + 2]
      ELSE 0

\* C8: the G band of every written image is the table's colour for a city raster
\* value in 1..5 and 0 for every other value and without a city layer; at most one
\* level term of the formula is non-zero, and their sum is at most 255.
C8_CityColourBurn ==
    \A i \in 0..4 :
        en_image[i] # NotWritten =>
            LET color_index == IF i = 4 THEN 0 ELSE ColorIndex(i)
            IN /\ en_image[i][2] = TableBurn(i)
               /\ CityTerm(en_has_cities, en_city, color_index) <= 255
               /\ Cardinality({k \in 0..4 : CityTermOf(en_city, k, color_index) # 0}) <= 1

C8_Witness ==
    /\ en_pc = 5
    /\ en_has_cities
    /\ en_city = 5
    /\ en_image[0][2] = 255
    /\ en_image[3][2] = 229
    /\ en_image[4][2] = 249

\* the map-area layer is missing, has no feature, or its feature lacks a required field
AreaInvalid == area_layer # "feature" \/ area_fields # RequiredFields

\* C9, as claimed: a run (on a valid map area, and not cancelled) whose city layer
\* has no "City Level" field fails with a QgsProcessingException before any
\* processing operation has started and with no file written into the output folder.
C9_CityValidationFailsFast ==
    (cities_param = "no_city_level" /\ ~AreaInvalid /\ cancel_at = "none"
       /\ pc = "failed") =>
        /\ error.type = "QgsProcessingException"
        /\ ran = <<>>
        /\ files = {}

\* C10, as claimed: with an invalid map area the run is over after _parse_area, ended
\* by a QgsProcessingException, and no processing operation has started, whatever the
\* biome, edge and coast overrides are.
C10_AreaValidationFails ==
    (AreaInvalid /\ pc \notin {"idle", "mkdir", "parse_area"}) =>
        /\ pc = "failed"
        /\ error.type = "QgsProcessingException"
        /\ ran = <<>>

\* the steps of the run at which no final output has been written yet
StepsBeforeOutput == {"mkdir", "parse_area", "create_height", "burn_cities"}

\* C11, as claimed: a run whose cancellation was requested before the first height
\* image was begun writes no final output (no height0..3.png, no height.png, no
\* manifest).
C11_CancelStopsExport ==
    cancel_at \in StepsBeforeOutput => files \cap FinalFiles = {}

\* the position in ran of step k of _create_height, or 0 when it has not started
StagePosition(k) ==
    IF \E i \in 1..Len(ran) : ran[i][1] = "create_height" /\ ran[i][2] = k
      THEN CHOOSE i \in 1..Len(ran) : ran[i][1] = "create_height" /\ ran[i][2] = k
      ELSE 0

\* C12: the stages of an export run come in dependency order. No processing
\* operation starts before the map area is parsed; every step of _create_height
\* starts after the steps whose output it reads; the operations of the image
\* writers start after the blend (step 12) and, when a city layer is given, after
\* the city raster is burned; height{i}.png is in the folder only when all of
\* height0..height{i-1}.png are, height.png only when height0..3.png are, and the
\* manifest only when all five images are.
C12_StageOrdering ==
    /\ ran # <<>> => map_area # NoArea
    /\ \A i \in 1..Len(ran) :
         ran[i][1] = "create_height" =>
            \A k \in StageInputs[ran[i][2]] : StagePosition(k) \in 1..(i - 1)
    /\ \A i \in 1..Len(ran) :
         ran[i][1] \in {"write_height_x", "write_height"} =>
            /\ StagePosition(Len(CreateHeightStages)) \in 1..(i - 1)
            /\ cities_param = "cities" =>
                  \E j \in 1..(i - 1) : ran[j][1] = "burn_cities"
            /\ ran[i][1] = "write_height_x" =>
                  \A j \in 1..(i - 1) :
                     ran[j][1] = "write_height_x" => ran[j][2] <= ran[i][2]
            /\ ran[i][1] = "write_height" =>
                  \A x \in 0..3 : \E j \in 1..(i - 1) :
                     ran[j] = <<"write_height_x", x, "translate">>
    /\ \A i \in 1..4 : HeightPng[i] \in files =>
                          \A j \in 1..(i - 1) : HeightPng[j] \in files
    /\ "height.png" \in files => \A i \in 1..4 : HeightPng[i] \in files
    /\ vtm # NoVtm => {HeightPng[i] : i \in 1..4} \cup {"height.png"} \subseteq files
    /\ vtm.name \in files => vtm # NoVtm

C12_Witness ==
    /\ pc = "done"
    /\ cities_param = "cities"
    /\ Len(ran) = 23
    /\ FinalFiles \subseteq files

Abs(x) == IF x >= 0 THEN x ELSE -x

\* a fully-land pixel above the sea whose exact value is within 0..1020 steps
LandPixelInRange ==
    /\ bl_pc = "blended"
    /\ bl_B = MaskDen
    /\ bl_A > 0
    /\ bl_A + 13 * height_step <= MaxRawSteps * height_step

\* C13, as claimed: a fully-land pixel of the height e - s above the sea is encoded as
\* floor((e - s) / altitudeStep + 13).
C13_LandEncodedByFloor ==
    LandPixelInRange => bl_out = (bl_A \div height_step) + 13

\* C13, amended: a fully-land pixel of the height e - s above the sea is encoded as
\* (e - s) / altitudeStep + 13 rounded to the nearest integer, a half going to the
\* even one.
C13_LandEncodedByRounding ==
    LandPixelInRange =>
        LET off == Abs((bl_out * height_step) - (bl_A + 13 * height_step))
        IN /\ 2 * off <= height_step
           /\ 2 * off = height_step => bl_out % 2 = 0

C13_Witness ==
    /\ LandPixelInRange
    /\ bl_A = 3 * (height_step \div 4)
    /\ bl_out = 14

C15_ShoreWithinOneStep ==
    sh_pc = "blended" => Abs(sh_land - sh_water) <= 1

\* C15, amended: the land pixel is at step 13 or higher and the water pixel at step
\* 12 or lower, so the two differ by at least 1 step; they differ by exactly 1 step
\* when the plateau is less than half a height step above the sea and the shore
\* slope is at most 5 percent (or has no value), and by at least 2 steps when the
\* plateau is more than half a height step above the sea.
C15_ShoreStepByPlateau ==
    sh_pc = "blended" =>
        /\ sh_land >= 13
        /\ sh_water <= 12
        /\ (2 * sh_plateau < height_step /\ sh_slope <= 5) => sh_land - sh_water = 1
        /\ 2 * sh_plateau > height_step => sh_land - sh_water >= 2

C15_Witness ==
    /\ sh_pc = "blended"
    /\ sh_plateau = height_step \div 4
    /\ sh_slope = 0
    /\ sh_land = 13
    /\ sh_water = 12

\* C16, as claimed: a water pixel at the distance maxDistance is encoded as step 1,
\* a pixel at the distance 1 as step 12, and beyond maxDistance the depth stays at
\* that of maxDistance.
C16_FalloffEndsAtOne ==
    fo_pc = "encoded" =>
        /\ fo_distance = fo_max => fo_depth = 1
        /\ fo_distance = 1 => fo_depth = 12
        /\ fo_distance > fo_max => fo_depth = FalloffDepth(fo_max, fo_max)

\* C16, amended: a water pixel at the distance maxDistance is encoded as step 0, a
\* pixel at the distance 1 as step 12, every pixel in between as a step of 0..12,
\* and beyond maxDistance the depth stays at 0.
C16_FalloffEndsAtZero ==
    fo_pc = "encoded" =>
        /\ fo_distance = fo_max => fo_depth = 0
        /\ fo_distance = 1 => fo_depth = 12
        /\ fo_depth \in 0..12
        /\ fo_distance > fo_max => fo_depth = 0

C16_Witness ==
    /\ fo_pc = "encoded"
    /\ fo_max = 10
    /\ fo_distance = 10
    /\ fo_depth = 0

\* the blended value of the pixel under the i-th shoreline bias
BlendUnderBias(i) == BlendFormula(bl_A, bl_B, bl_C, bl_D, SHORELINE_BIAS_VALUES[i])

C18_ManifestCoordinatesInverted ==
    vtm # NoVtm =>
        /\ vtm.longitude = map_area.latitude
        /\ vtm.longitude = area_feature.latitude
        /\ vtm.latitude = map_area.longitude
        /\ vtm.latitude = area_feature.longitude
        /\ vtm.mapSize = map_area.chunks
        /\ vtm.mapID = OutputFolderName
        /\ vtm.name = vtm.mapID \o ".vtm"
        /\ vtm.name \in files

C18_Witness ==
    /\ pc = "done"
    /\ area_feature.latitude = 46
    /\ area_feature.longitude = 4
    /\ vtm.longitude = 46
    /\ vtm.latitude = 4
    /\ vtm.mapSize = 8
    /\ "mymap.vtm" \in files

\* C19, as claimed: every map area the export accepted from _parse_area has a chunk
\* count in 8..64 and a square extent of side chunks * 3072.
C19_AcceptedAreaIsValid ==
    map_area # NoArea =>
        /\ map_area.chunks \in 8..64
        /\ RectWidth(map_area.extent) = map_area.chunks * 3072
        /\ RectHeight(map_area.extent) = map_area.chunks * 3072

\* C20: every raster made on the target grid (the downsampled terrain, mask weight
\* and shore slope, the rasters derived from them, and the city raster) is a
\* square of chunks * 20 + 1 pixels per side, 161 for chunks = 8; so the blended
\* height map and the city raster merged by the image writers have the same size.
C20_CommonTargetGrid ==
    /\ \A g \in grid :
          /\ g.width = (map_area.chunks * 20) + 1
          /\ g.height = g.width
          /\ map_area.chunks = 8 => g.width = 161
    /\ \A k \in ResizingStages : StagePosition(k) # 0 => GridOf(k) # NoGrid
    /\ pc \in {"write_height_x", "write_height", "write_vtm", "report", "done"} =>
          /\ GridOf(Len(CreateHeightStages)) # NoGrid
          /\ \A g \in grid :
                g.raster = "burned_cities" =>
                   /\ g.width = GridOf(Len(CreateHeightStages)).width
                   /\ g.height = GridOf(Len(CreateHeightStages)).height
          /\ cities_param = "cities" => \E g \in grid : g.raster = "burned_cities"

C20_Witness ==
    /\ pc = "write_height_x"
    /\ cities_param = "cities"
    /\ map_area.chunks = 8
    /\ Cardinality(grid) = 7
    /\ \A g \in grid : g.width = 161 /\ g.height = 161

\* the numbered .tif files of the intermediate and merged rasters
CompositionFiles ==
    {CreateHeightStages[k][2] : k \in 1..Len(CreateHeightStages)}
      \cup {HeightMerged[i] : i \in 1..4} \cup {"13_height_merged.tif"}

\* C21: without the debug flag a run never has a file in the output folder other
\* than height0..3.png, height.png and <folder name>.vtm, and a successful run has
\* exactly these six; with the debug flag a successful run has these six and the
\* seventeen numbered .tif files of the intermediate and merged rasters.
C21_DurableOutput ==
    /\ ~debug => files \subseteq FinalFiles
    /\ files \subseteq FinalFiles \cup CompositionFiles
    /\ pc = "done" => files = FinalFiles \cup (IF debug THEN CompositionFiles ELSE {})

C21_Witness ==
    /\ pc = "done"
    /\ ~debug
    /\ cities_param = "cities"
    /\ Len(ran) = 23
    /\ files = FinalFiles
    /\ Cardinality(files) = 6

\* the steps of _generate_cities up to the end of the loop over the features
StepsBeforeAdd == {"download", "reproject", "classify", "vectorize", "features"}

\* C22, as claimed: when the cancellation was requested before the loop over the
\* vectorized features was over, no generated feature is added to the city layer.
C22_CancelAddsNoFeature ==
    gc_cancel_at \in StepsBeforeAdd => gc_layer = <<>>

\* C23: once _download_dem has seen the cancellation in its loop over the chunks
\* (it returned {}), the reprojection is never started, the target file is never
\* written, no error is raised, and the run goes on only to return {}.
C23_AbortedDownload ==
    ot_dem_data = "{}" =>
        /\ ot_ran = <<>>
        /\ ~ot_target
        /\ ~ot_loaded
        /\ ot_error = NoError
        /\ ot_pc \in {"check_download", "returned"}
        /\ ot_pc = "returned" => ot_result = "{}"
        /\ ot_downloaded < ot_chunks

C23_Witness ==
    /\ ot_dem_data = "{}"
    /\ ot_pc = "returned"
    /\ ot_result = "{}"
    /\ ot_downloaded = 1
    /\ ot_chunks = 3

\* C26, as claimed: an import that is not cancelled, whose download and reprojection
\* both succeed, ends without an error, with the output layer registered for
\* loading and the reprojected raster returned as OUTPUT.
C26_SuccessfulImport ==
    (/\ ot_pc \in {"returned", "failed"}
     /\ ot_area_layer = "feature"
     /\ ot_http = "ok"
     /\ ot_warp = "ok"
     /\ ~ot_canceled) =>
        /\ ot_pc = "returned"
        /\ ot_error = NoError
        /\ ot_loaded
        /\ ot_result = "OUTPUT"

\* the steps of _create_height whose raster reads the downsampled terrain
ReadsTerrain == {7, 12}

\* C24: in two export runs that differ in nothing but the resampling method, every
\* raster of _create_height other than the downsampled terrain (step 7) and the
\* blend that reads it (step 12) is the same in both runs: the high-resolution
\* mask (4), the mask weight (8), the shore slope (9), the bathymetry slope (10)
\* and the bathymetry gradient (11) among them; the mask weight is always
\* resampled by "average" and the shore slope by "maximum".
C24_ShorelineIndependent ==
    rs_source[1] = rs_source[2] =>
        /\ \A k \in 1..rs_step :
              k \notin ReadsTerrain => rs_raster[1][k] = rs_raster[2][k]
        /\ \A r \in 1..2 :
              /\ rs_step >= 8 => OPTIONS_RESAMPLING[rs_raster[r][8].resampling + 1] = "average"
              /\ rs_step >= 9 => OPTIONS_RESAMPLING[rs_raster[r][9].resampling + 1] = "maximum"

C24_Witness ==
    /\ rs_step = Len(CreateHeightStages)
    /\ rs_source[1] = rs_source[2]
    /\ OPTIONS_RESAMPLING[rs_index[1] + 1] = "lanczos"
    /\ OPTIONS_RESAMPLING[rs_index[2] + 1] = "nearest"
    /\ rs_raster[1][7] # rs_raster[2][7]
    /\ rs_raster[1][11] = rs_raster[2][11]

\* the levels below level i that are enabled
EnabledBelow(i) == {j \in 1..(i - 1) : rc_levels[j + 1] > 0}

\* the height of the nearest enabled level below level i, or the cutoff
PrevHeight(i) ==
    IF EnabledBelow(i) = {} THEN rc_levels[1]
    ELSE rc_levels[(CHOOSE j \in EnabledBelow(i) : \A q \in EnabledBelow(i) : q <= j) + 1]

\* the enabled levels
EnabledLevels == {i \in 1..5 : rc_levels[i + 1] > 0}

\* C25, as claimed: a building height h gets level i exactly when level i is
\* enabled and prev < h <= h_i, prev being the height of the nearest enabled lower
\* level or the cutoff; heights at or below the cutoff and heights above the
\* highest enabled level give no city; a disabled level is never assigned.
C25_LevelByTable ==
    rc_pc = "classified" =>
        /\ \A i \in 1..5 :
              rc_level = i <=> /\ rc_levels[i + 1] > 0
                               /\ PrevHeight(i) < rc_height
                               /\ rc_height <= rc_levels[i + 1]
        /\ rc_height <= rc_levels[1] => rc_level = 0
        /\ (\A i \in EnabledLevels : rc_height > rc_levels[i + 1]) => rc_level = 0
        /\ rc_level # 0 => rc_level \in EnabledLevels

\* C27: for a shore distance C >= 0 and a slope D >= 0 the synthetic depth that
\* goes into the blend lies in [-80 m, 0], is 0 only at C = 0, is not above the
\* depth of any smaller shore distance under the same slope, and is not above
\* one height step per pixel of shore distance, floored at -80 m.
C27_DepthBounds ==
    (bl_pc = "blended" /\ bl_C >= 0 /\ bl_D >= 0) =>
        /\ BathyFloor <= bl_depth
        /\ bl_depth <= 0
        /\ bl_depth = 0 <=> bl_C = 0
        /\ \A C \in DistanceSamples : C <= bl_C => BathyFormula(C, bl_D) >= bl_depth
        /\ bl_depth <= Max2(BathyFloor, -MulDiv(bl_C, height_step, pixel_size))

C27_Witness ==
    /\ bl_pc = "blended"
    /\ bl_C = max_bathy_distance
    /\ bl_D = 1000
    /\ bl_depth = BathyFloor

\* C28: the sorted layer of _burn_cities holds every input feature exactly once,
\* unchanged, in non-decreasing City Level order, features of equal level in
\* their input order, and the feature at position i has the id i - 1.
C28_BurnOrder ==
    ci_pc \in {"sorted", "burned"} =>
        /\ Len(ci_sorted) = Len(ci_layer)
        /\ {ci_sorted[i].source : i \in 1..Len(ci_sorted)} = 1..Len(ci_layer)
        /\ \A i \in 1..Len(ci_sorted) :
              /\ ci_sorted[i].level = ci_layer[ci_sorted[i].source].level
              /\ ci_sorted[i].covers = ci_layer[ci_sorted[i].source].covers
              /\ ci_sorted[i].fid = i - 1
        /\ \A i, j \in 1..Len(ci_sorted) :
              i < j => /\ ci_sorted[i].level <= ci_sorted[j].level
                       /\ ci_sorted[i].level = ci_sorted[j].level
                            => ci_sorted[i].source < ci_sorted[j].source

C28_Witness ==
    /\ ci_pc = "sorted"
    /\ Len(ci_layer) = 2
    /\ ci_layer[1].level = 3
    /\ ci_layer[2].level = 1
    /\ ci_sorted[1].source = 2
    /\ ci_sorted[2].fid = 1

\* the bands of image number i (0..3: height{i}.png, 4: height.png) for a height
\* and a city input
ImageBands(A, has_cities, B, i) ==
    IF i = 4 THEN MergedHeight(A, has_cities, B) ELSE MergedHeightX(A, has_cities, B, i)

\* C29: in every written height image the R band is what the height alone gives
\* (the same as without any city input), the G band is what the city input alone
\* gives (the same as over a height of 0), the B band is 0 and the A band is 255.
C29_ChannelLayout ==
    \A i \in 0..4 :
        en_image[i] # NotWritten =>
            /\ Len(en_image[i]) = 4
            /\ en_image[i][1] = ImageBands(en_height, FALSE, 0, i)[1]
            /\ en_image[i][1] = ToByte(IF i = 4 THEN HeightFormula(en_height)
                                                 ELSE HeightXFormula(en_height, i))
            /\ en_image[i][2] = ImageBands(0, en_has_cities, en_city, i)[2]
            /\ en_image[i][2] = TableBurn(i)
            /\ en_image[i][3] = 0
            /\ en_image[i][4] = 255

C29_Witness ==
    /\ en_pc = 5
    /\ en_has_cities
    /\ en_city = 3
    /\ en_height = 300
    /\ en_image[1][1] = 45
    /\ \E i \in 0..4 : en_image[i][2] > 0
    /\ \A i \in 0..4 : en_image[i][3] = 0 /\ en_image[i][4] = 255

\* floor(n / d) for d > 0
FloorDiv(n, d) == n \div d

\* C30, as claimed: for a centre of a longitude in [-180, 180] the CRS chosen is
\* 32600 + zone when the latitude of the centre is >= 0 and 32700 + zone when it
\* is not, zone being floor((longitude + 180) / 6) + 1, and zone is one of 1..60.
C30_UtmZoneSelection ==
    (/\ zn_pc = "selected"
     /\ -180 * LonDen <= zn_lon
     /\ zn_lon <= 180 * LonDen) =>
        /\ zn_zone = FloorDiv(zn_lon + 180 * LonDen, 6 * LonDen) + 1
        /\ zn_epsg = (IF zn_lat >= 0 THEN 32600 ELSE 32700) + zn_zone
        /\ zn_zone \in 1..60

=============================================================================
